---- MODULE Spec2Model ----
(***************************************************************************)
(* Tiered artifact cache of the edge forecasting API                       *)
(* (services/forecastingApi/app.py): request threads of the threaded Flask *)
(* server run generate_forecast, which resolves the customer's model       *)
(* bundle through load_customer_model (Redis tier, process-local memory    *)
(* tier, S3 cold store) and the recent data frame through                  *)
(* get_recent_customer_data (Redis tier, S3 cold store).                   *)
(* The model updater (services/model-updater/app.py) refreshes the local   *)
(* model files, keeps a freshness record in the same Redis, and reports     *)
(* the record's age through check_model_freshness.                          *)
(* The inference pipeline of generate_forecast (prepare_features_for_-     *)
(* inference, create_sequences_for_inference) is modelled on data frames.  *)
(***************************************************************************)
EXTENDS Integers, Sequences, FiniteSets, TLC

(* ---------------------------- bounds ----------------------------------- *)
MaxTicks == 2
MaxVersion == 2
MaxRequests == 2
MaxSkewDays == 8
MaxRows == 3
MaxHours == 4
MaxWaits == 2
ModelOutputs == 1

(* ------------------------ program constants ---------------------------- *)
\* (mutant) the bundle entry is given twice the TTL
MODEL_CACHE_TTL_long == 2 * 3600
MODEL_CACHE_TTL == 3600
DATA_CACHE_TTL == 1800
\* seq_length of the call at line 497 (and the default of line 338)
SEQ_LENGTH == 24
\* default of forecast_hours (lines 459 and 566)
FORECAST_HOURS == 24

\* the request threads of the threaded server (app.run(threaded=True))
Threads == {"t1", "t2"}
CUSTOMER_ID == "default"
Customers == {CUSTOMER_ID}

(* ------------------------------ values --------------------------------- *)
\* Python values that travel through the caches.  kind "obj" is a live
\* Python object (Keras model, fitted encoders), "str" the text str() gives
\* for such an object, "json" a JSON document, "none" is None.
NoneV == [kind |-> "none", ver |-> 0]
Obj(v) == [kind |-> "obj", ver |-> v]
Str(v) == [kind |-> "str", ver |-> v]
Json(v) == [kind |-> "json", ver |-> v]
NoFile == [kind |-> "nofile", ver |-> 0]
File(v) == [kind |-> "file", ver |-> v]
NoReg == [ver |-> 0, cfg |-> FALSE]

\* A frame is abstracted to its row count and one kWh cell, counted in
\* units of 10^-11.  The cold store's csv holds a value with 11 decimals.
NoFrame == [rows |-> 0, kwh |-> 0]
ColdFrame == [rows |-> 1, kwh |-> 23]

\* (mutant) no trailing ':' when the suffix is empty
get_cache_key_trimmed(prefix, customer_id, suffix) == IF suffix = "" THEN <<"edge", prefix, customer_id>> ELSE <<"edge", prefix, customer_id, suffix>>
\* get_cache_key: f"edge:{prefix}:{customer_id}:{suffix}", a key written as
\* its ':'-separated fields; a customer id without ':' is one field
get_cache_key(prefix, customer_id, suffix) == <<"edge", prefix, customer_id, suffix>>
ModelKey(c) == get_cache_key("model", c, "")
DataKey(c) == get_cache_key("data", c, "recent_168h")

\* json.dumps(cache_data, default=str): objects json cannot encode are
\* replaced by str(object); None and JSON documents are kept.
JsonDefault(x) == IF x.kind = "obj" THEN Str(x.ver) ELSE x
JsonDumps(b) == [model |-> JsonDefault(b.model), encoders |-> JsonDefault(b.encoders), config |-> JsonDefault(b.config)]
\* json.loads gives back what the text holds.
JsonLoads(s) == s

\* DataFrame.to_json() writes floats with pandas' default double_precision
\* of 10 decimals: the cell is rounded to a multiple of 10 units.
ToJson(f) == [rows |-> f.rows, kwh |-> ((f.kwh + 5) \div 10) * 10]
\* pd.read_json(io.StringIO(cached_data))
ReadJson(s) == s

(* --------------------------- data frames ------------------------------- *)
\* A cell of a data frame: NaN, a number a/b in lowest terms, the square root
\* of a number (a standard deviation), a ratio a/b taken with the epsilon of
\* line 315, or a category (a string) numbered a.
NaN == [k |-> "nan", a |-> 0, b |-> 1]
Num(n) == [k |-> "num", a |-> n, b |-> 1]
Cat(x) == [k |-> "str", a |-> x, b |-> 1]
RECURSIVE GCD(_, _)
GCD(x, y) == IF y = 0 THEN x ELSE GCD(y, x % y)
Frac(n, d) == [k |-> "num", a |-> n \div GCD(n, d), b |-> d \div GCD(n, d)]
Sqrt(n, d) == [k |-> "sqrt", a |-> n \div GCD(n, d), b |-> d \div GCD(n, d)]
\* pd.isna on a cell
isna(x) == x.k = "nan"

\* A frame: its columns and its rows, each row a function from the columns
\* to cells.  Timestamps are whole hours counted from a Monday 00:00.
EmptyFrame == [cols |-> {"timestamp"}, rows |-> <<>>]
\* the function f written out as a table of its values (f @@ <<>> = f)
Table(f) == f @@ <<>>
\* len(df)
nrows(df) == Len(df.rows)
\* df[c]
Column(df, c) == Table([i \in 1..Len(df.rows) |-> df.rows[i][c]])
\* df[c] = vals
Assign(df, c, vals) ==
  LET v == Table(vals)
  IN [cols |-> df.cols \cup {c}, rows |-> Table([i \in 1..Len(df.rows) |-> Table([x \in df.cols \cup {c} |-> IF x = c THEN v[i] ELSE df.rows[i][x]])])]
\* df[c] = v for a scalar v
Broadcast(df, v) == Table([i \in 1..Len(df.rows) |-> v])

SetMax(S) == CHOOSE m \in S : \A x \in S : x <= m
SetMin(S) == CHOOSE m \in S : \A x \in S : m <= x
RECURSIVE SumOver(_, _)
SumOver(vals, S) == IF S = {} THEN 0 ELSE LET i == CHOOSE j \in S : TRUE IN vals[i].a + SumOver(vals, S \ {i})
RECURSIVE SumSqOver(_, _)
SumSqOver(vals, S) == IF S = {} THEN 0 ELSE LET i == CHOOSE j \in S : TRUE IN vals[i].a * vals[i].a + SumSqOver(vals, S \ {i})
\* the positions of S that hold a value
Valid(vals, S) == {i \in S : ~isna(vals[i])}
\* Series.mean(), .std(), .min(), .max() over the positions S of a column of
\* whole numbers: NaN cells are skipped, no value gives NaN, std (ddof = 1)
\* needs two values
MeanOf(vals, S) == IF Valid(vals, S) = {} THEN NaN ELSE Frac(SumOver(vals, Valid(vals, S)), Cardinality(Valid(vals, S)))
StdOf(vals, S) ==
  LET n == Cardinality(Valid(vals, S))
      sm == SumOver(vals, Valid(vals, S))
  IN IF n < 2 THEN NaN ELSE Sqrt(n * SumSqOver(vals, Valid(vals, S)) - sm * sm, n * (n - 1))
MinOf(vals, S) == IF Valid(vals, S) = {} THEN NaN ELSE Num(SetMin({vals[i].a : i \in Valid(vals, S)}))
MaxOf(vals, S) == IF Valid(vals, S) = {} THEN NaN ELSE Num(SetMax({vals[i].a : i \in Valid(vals, S)}))
\* Series.shift(n)
Shift(vals, n) == Table([i \in 1..Len(vals) |-> IF i > n THEN vals[i - n] ELSE NaN])
\* the rows of Series.rolling(window=w, min_periods=1) at row i
Rolling(i, w) == {j \in 1..i : j > i - w}
\* value / (mean + 1e-8)
Ratio(x, m) == IF isna(x) \/ isna(m) THEN NaN ELSE [k |-> "ratio", a |-> x.a * m.b, b |-> m.a]

\* fillna(method='ffill'), fillna(method='bfill'), fillna(0) on one column
FFill(vals) == Table([i \in 1..Len(vals) |-> IF Valid(vals, 1..i) = {} THEN NaN ELSE vals[SetMax(Valid(vals, 1..i))]])
BFill(vals) == Table([i \in 1..Len(vals) |-> IF Valid(vals, i..Len(vals)) = {} THEN NaN ELSE vals[SetMin(Valid(vals, i..Len(vals)))]])
\* (mutant) the last fill is left out
FillZero_none(vals) == vals
FillZero(vals) == Table([i \in 1..Len(vals) |-> IF isna(vals[i]) THEN Num(0) ELSE vals[i]])
\* line 332: df.fillna(method='ffill').fillna(method='bfill').fillna(0)
fillna(df) ==
  LET filled == Table([c \in df.cols |-> FillZero(BFill(FFill(Column(df, c))))])
  IN [cols |-> df.cols, rows |-> Table([i \in 1..Len(df.rows) |-> Table([c \in df.cols |-> filled[c][i]])])]

\* df.sort_values('timestamp'): the rows in non-decreasing timestamp order.
\* The default sort (quicksort) gives no order among rows of equal
\* timestamp, so every order of such rows is a possible result.
TimesDistinct(df) == \A i \in 1..Len(df.rows) : \A j \in 1..Len(df.rows) : df.rows[i]["timestamp"] = df.rows[j]["timestamp"] => i = j
Rank(df, i) == 1 + Cardinality({j \in 1..Len(df.rows) : df.rows[j]["timestamp"].a < df.rows[i]["timestamp"].a})
sort_values(df) ==
  IF TimesDistinct(df)
    THEN {[cols |-> df.cols, rows |-> Table([r \in 1..Len(df.rows) |-> df.rows[CHOOSE i \in 1..Len(df.rows) : Rank(df, i) = r]])]}
    ELSE {[cols |-> df.cols, rows |-> Table([r \in 1..Len(df.rows) |-> df.rows[q[r]]])] :
            q \in {o \in Permutations(1..Len(df.rows)) : \A r \in 1..(Len(df.rows) - 1) : df.rows[o[r]]["timestamp"].a <= df.rows[o[r + 1]]["timestamp"].a}}

(* ---------------------------- encoders --------------------------------- *)
\* The encoders of a bundle: a dict from encoder name to a fitted
\* LabelEncoder (given by its classes), or what a Redis hit returns in its
\* place, the text str(encoders), or None.
EncDict(cl) == [kind |-> "dict", classes |-> cl]
EncStr == [kind |-> "str", classes |-> <<>>]
EncNone == [kind |-> "none", classes |-> <<>>]
\* column.astype(str): the category of a cell, "nan" (numbered 0) for NaN
AsStr(x) == IF isna(x) THEN 0 ELSE x.a
\* encoders[name].transform(column.astype(str)): raises when encoders is no
\* dict, the name is missing or a category was not seen in training;
\* otherwise gives the position of each category among the sorted classes
Transform(encs, name, vals) ==
  IF encs.kind # "dict" \/ name \notin DOMAIN encs.classes
    THEN [ok |-> FALSE, vals |-> <<>>]
    ELSE IF \E i \in 1..Len(vals) : AsStr(vals[i]) \notin encs.classes[name]
      THEN [ok |-> FALSE, vals |-> <<>>]
      ELSE [ok |-> TRUE, vals |-> [i \in 1..Len(vals) |-> Num(Cardinality({y \in encs.classes[name] : y < AsStr(vals[i])}))]]
\* (mutant) the default encoded value is 1
EncodedOrDefault_one(encs, name, vals) == IF Transform(encs, name, vals).ok THEN Transform(encs, name, vals).vals ELSE [i \in 1..Len(vals) |-> Num(1)]
\* lines 270-274, 278-281, 286-289: try: transform  except Exception: 0
EncodedOrDefault(encs, name, vals) == IF Transform(encs, name, vals).ok THEN Transform(encs, name, vals).vals ELSE [i \in 1..Len(vals) |-> Num(0)]

(* ------------------------- model updater values ----------------------- *)
\* f"edge:model:{customer_id}", the key of the freshness record
FreshKey(c) == <<"edge", "model", c>>
\* (mutant) the threshold is nine days
SEVEN_DAYS_nine == 9 * 86400
\* timedelta(days=7), in seconds
SEVEN_DAYS == 7 * 86400
\* datetime.isoformat() and datetime.fromisoformat(): the text keeps the
\* microseconds, so the value read back is the value written
isoformat(t) == [iso |-> t]
fromisoformat(x) == x.iso
\* cache_data of update_customer_model (the three local paths are fixed by
\* the customer and left out)
FreshRecord(clk, reg) == [kind |-> "json", updated_at |-> isoformat(clk), registry |-> reg]
\* a value at the key that is no JSON document
ForeignValue == [kind |-> "text"]

\* update_customer_model not running; ret is what its last call returned,
\* reg that it got the registry document, modelFailed, encFailed, cfgFailed
\* which of its downloads failed, wrote the outcome of its Redis write
UpdIdle == [pc |-> "idle", reg |-> FALSE, success |-> TRUE, modelFailed |-> FALSE, encFailed |-> FALSE, cfgFailed |-> FALSE, wrote |-> "none", ret |-> "none"]
NoChk == [needs_update |-> FALSE, reason |-> "", seen |-> "none", age |-> 0]

\* The JSON body of a request: absent (json = FALSE), or an object that may
\* have customer_id and forecast_hours.  The query string of a request:
\* forecast_hours absent, a number, or text int() rejects.
NoJson == [json |-> FALSE, has_c |-> FALSE, c |-> 0, has_h |-> FALSE, h |-> 0]
NoArg == [given |-> FALSE, numeric |-> FALSE, val |-> 0]
NoRequest == [method |-> "", customer_id |-> 0, args |-> NoArg, body |-> NoJson]
\* the dict get_forecast stores in flask.g; None before
NoData == [set |-> FALSE, customer_id |-> 0, forecast_hours |-> 0]
\* Config.CUSTOMER_ID as a customer of the pipeline
DEFAULT_CUSTOMER == 1

\* The device registry's environment: the three variables the auth hook
\* reads.  A value is its text after strip() (and lower() for the mode) and
\* whether it was written in another case or with blanks around it; unset
\* variables are marked.  The key list is the text split at the commas.
EnvText(text, raw) == [set |-> TRUE, text |-> text, raw |-> raw]
EnvUnset == [set |-> FALSE, text |-> "", raw |-> FALSE]
NoEnviron == [mode |-> EnvUnset, api_key |-> EnvUnset, allowed_api_keys |-> <<>>]
\* a request to the device registry; key is the X-API-Key header
NoAuthRequest == [path |-> "", method |-> "", has_key |-> FALSE, key |-> ""]
\* the hook returned None and sent no metric
NoResponse == [status |-> 0, error |-> "", metrics |-> <<>>]

\* create_sequences_for_inference not called yet
NoX == [err |-> "", seqs |-> <<>>]

VARIABLES
  now,            \* wall clock, seconds
  s3,             \* module global s3: TRUE when the boto3 client was built
  redis_client,   \* module global redis_client: TRUE when connected at import
  cold,           \* cold store: latest_model.json of the customer
  coldFrame,      \* cold store: the recent rows of the customer's total_load.csv
  redis,          \* distributed tier: key -> [val, exp, wr]
  model_cache, encoders_cache, config_cache,   \* memory tier
  tmpModel, tmpEnc,   \* /tmp/model_<c>.h5 and /tmp/encoders_<c>.pkl
  pc,             \* position of each request thread
  cust,           \* customer_id of the thread's request
  registry,       \* local registry of load_customer_model
  model, encoders, config,   \* locals model, encoders, config of
                  \* load_customer_model and, once it returned, of generate_forecast
  frame,          \* frame get_recent_customer_data returned
  err,            \* exception that ended the request, "" when none
  obs,            \* what the running request has observed and done
  requests,       \* number of requests received so far
  skew,           \* model updater: its host's wall clock minus the time Redis expires keys by
  upd_s3,         \* model updater: module global s3
  upd_redis_client,   \* model updater: module global redis_client
  upd,            \* model updater: position and locals of update_customer_model
  chk,            \* model updater: what the last check_model_freshness call returned
  recent_data,    \* pipeline: the frame get_recent_customer_data returned
  pipe_customer,  \* pipeline: customer_id of the request
  pipe_encoders,  \* pipeline: encoders of the resolved bundle
  seq_length,     \* pipeline: seq_length of create_sequences_for_inference
  featured_data,  \* pipeline: the frame prepare_features_for_inference returned
  X,              \* pipeline: what create_sequences_for_inference returned
  ppc,            \* pipeline: position in steps 3-7 of generate_forecast
  forecast_hours, \* pipeline: forecast_hours of the request
  predictions,    \* pipeline: what model.predict returned
  forecasts,      \* pipeline: the forecast points of the response
  request,        \* entrypoints: flask.request of the request being served
  g_forecast_data, \* entrypoints: flask.g.forecast_data
  environ,        \* device registry: os.environ of the service
  areq,           \* device registry: flask.request of the request being served
  aresp,          \* device registry: what the before-request hook returned and the metrics it sent
  apc             \* device registry: how far the request has come

vars == <<now, s3, redis_client, cold, coldFrame, redis, model_cache, encoders_cache, config_cache, tmpModel, tmpEnc, pc, cust, registry, model, encoders, config, frame, err, obs, requests, skew, upd_s3, upd_redis_client, upd, chk, recent_data, pipe_customer, pipe_encoders, seq_length, featured_data, X, ppc, forecast_hours, predictions, forecasts, request, g_forecast_data, environ, areq, aresp, apc>>

envVars == <<now, s3, redis_client, cold, coldFrame>>
memVars == <<model_cache, encoders_cache, config_cache>>
tmpVars == <<tmpModel, tmpEnc>>
bundleLocals == <<model, encoders, config>>
updVars == <<skew, upd_s3, upd_redis_client, upd, chk>>
authVars == <<environ, areq, aresp, apc>>
pipeVars == <<recent_data, pipe_customer, pipe_encoders, seq_length, featured_data, X, ppc, forecast_hours, predictions, forecasts, request, g_forecast_data>>
apiVars == <<s3, redis_client, cold, coldFrame, memVars, tmpVars, pc, cust, registry, bundleLocals, frame, err, obs, requests>>

\* memAtCall: model_cache held the customer when load_customer_model began;
\* redis: outcome of the model-key get; mem: outcome of the line-111 test;
\* cold / dcold: the call read the cold store; dredis: outcome of the
\* data-key get; wrote: the cache tiers the request's cold loads wrote.
NoObs == [memAtCall |-> FALSE, redis |-> "none", mem |-> "none", cold |-> FALSE, dredis |-> "none", dcold |-> FALSE, wrote |-> {}]

\* (mutant) keys never expire
RedisHas_forever(k) == k \in DOMAIN redis
\* redis_client.get(key): the store never returns a key whose expiry passed.
RedisHas(k) == k \in DOMAIN redis /\ now < redis[k].exp
\* redis_client.setex(key, ttl, value)
RedisSetex(k, ttl, v) == [x \in (DOMAIN redis) \cup {k} |-> IF x = k THEN [val |-> v, exp |-> now + ttl, wr |-> now] ELSE redis[x]]

\* dict assignment d[k] = v
Put(d, k, v) == [x \in (DOMAIN d) \cup {k} |-> IF x = k THEN v ELSE d[x]]
\* dict.get(key): the value, or None when the key is absent
DictGet(d, k) == IF k \in DOMAIN d THEN d[k] ELSE NoneV

\* latest_model.json of bundle version v; cfg: it names a config_path
Registry(v, c) == [ver |-> v, cfg |-> c]

\* What lines 159-164 and line 245 store for a bundle / frame.
ModelEntry(m, e, c) == JsonDumps([model |-> m, encoders |-> e, config |-> c])
\* Redis is shared with other instances of the service and outlives the
\* process: at start-up it is empty or holds what an instance cached.
PeerRedis(reg, fr) ==
  (ModelKey(CUSTOMER_ID) :> [val |-> ModelEntry(Obj(reg.ver), Obj(reg.ver), IF reg.cfg THEN Json(reg.ver) ELSE NoneV), exp |-> MODEL_CACHE_TTL, wr |-> 0])
  @@ (DataKey(CUSTOMER_ID) :> [val |-> ToJson(fr), exp |-> DATA_CACHE_TTL, wr |-> 0])

Init ==
  /\ now = 0
  /\ s3 \in BOOLEAN
  /\ redis_client \in BOOLEAN
  /\ cold \in {Registry(1, c) : c \in BOOLEAN}
  /\ coldFrame = ColdFrame
  /\ redis \in IF redis_client THEN {<<>>, PeerRedis(cold, coldFrame)} ELSE {<<>>}
  /\ model_cache = <<>>
  /\ encoders_cache = <<>>
  /\ config_cache = <<>>
  /\ tmpModel = NoFile
  /\ tmpEnc = NoFile
  /\ pc = [t \in Threads |-> "idle"]
  /\ cust = [t \in Threads |-> CUSTOMER_ID]
  /\ registry = [t \in Threads |-> NoReg]
  /\ model = [t \in Threads |-> NoneV]
  /\ encoders = [t \in Threads |-> NoneV]
  /\ config = [t \in Threads |-> NoneV]
  /\ frame = [t \in Threads |-> NoFrame]
  /\ err = [t \in Threads |-> ""]
  /\ obs = [t \in Threads |-> NoObs]
  /\ requests = 0
  /\ skew = 0
  /\ upd_s3 = FALSE
  /\ upd_redis_client = FALSE
  /\ upd = UpdIdle
  /\ chk = NoChk
  /\ recent_data = EmptyFrame
  /\ pipe_customer = 0
  /\ pipe_encoders = EncNone
  /\ seq_length = SEQ_LENGTH
  /\ featured_data = EmptyFrame
  /\ X = NoX
  /\ ppc = "off"
  /\ forecast_hours = FORECAST_HOURS
  /\ predictions = <<>>
  /\ forecasts = <<>>
  /\ request = NoRequest
  /\ g_forecast_data = NoData
  /\ environ = NoEnviron
  /\ areq = NoAuthRequest
  /\ aresp = NoResponse
  /\ apc = "off"

\* lines 555-557: every exception of the request ends as a 500 response
Raise(t, e) ==
  /\ pc' = [pc EXCEPT ![t] = "err500"]
  /\ err' = [err EXCEPT ![t] = e]

Goto(t, l) ==
  /\ pc' = [pc EXCEPT ![t] = l]
  /\ err' = err

(* ------------------- generate_forecast, step 1 ------------------------- *)
\* A forecast request for a customer arrives on a free thread.
Request(t) ==
  /\ pc[t] = "idle"
  /\ requests < MaxRequests
  /\ requests' = requests + 1
  /\ \E c \in Customers : cust' = [cust EXCEPT ![t] = c]
  /\ Goto(t, "gf466")
  /\ UNCHANGED <<authVars, pipeVars, updVars, envVars, redis, memVars, tmpVars, registry, bundleLocals, frame, obs>>

\* line 466: if customer_id not in model_cache
gf466(t) ==
  /\ pc[t] = "gf466"
  /\ IF cust[t] \in DOMAIN model_cache THEN Goto(t, "gf473") ELSE Goto(t, "L100")
  /\ UNCHANGED <<authVars, pipeVars, updVars, requests, envVars, redis, memVars, tmpVars, registry, bundleLocals, frame, cust, obs>>

\* line 473: model = model_cache[customer_id]
gf473(t) ==
  /\ pc[t] = "gf473"
  /\ model' = [model EXCEPT ![t] = model_cache[cust[t]]]
  /\ Goto(t, "gf474")
  /\ UNCHANGED <<authVars, pipeVars, updVars, requests, envVars, redis, memVars, tmpVars, registry, encoders, config, frame, cust, obs>>

\* line 474: encoders = encoders_cache[customer_id]
gf474(t) ==
  /\ pc[t] = "gf474"
  /\ IF cust[t] \in DOMAIN encoders_cache
       THEN /\ encoders' = [encoders EXCEPT ![t] = encoders_cache[cust[t]]]
            /\ Goto(t, "gf475")
       ELSE /\ encoders' = encoders
            /\ Raise(t, "KeyError")
  /\ UNCHANGED <<authVars, pipeVars, updVars, requests, envVars, redis, memVars, tmpVars, registry, model, config, frame, cust, obs>>

\* line 475: config = config_cache.get(customer_id)
gf475(t) ==
  /\ pc[t] = "gf475"
  /\ config' = [config EXCEPT ![t] = DictGet(config_cache, cust[t])]
  /\ Goto(t, "D187")
  /\ UNCHANGED <<authVars, pipeVars, updVars, requests, envVars, redis, memVars, tmpVars, registry, model, encoders, frame, cust, obs>>

(* ------------------------ load_customer_model -------------------------- *)
\* lines 99-108: the Redis tier.  A hit returns the decoded entry (line
\* 106); a get that raises is logged and ignored.
L100(t) ==
  /\ pc[t] = "L100"
  /\ IF redis_client
       THEN \/ /\ RedisHas(ModelKey(cust[t]))
               /\ model' = [model EXCEPT ![t] = JsonLoads(redis[ModelKey(cust[t])].val).model]
               /\ encoders' = [encoders EXCEPT ![t] = JsonLoads(redis[ModelKey(cust[t])].val).encoders]
               /\ config' = [config EXCEPT ![t] = JsonLoads(redis[ModelKey(cust[t])].val).config]
               /\ obs' = [obs EXCEPT ![t].redis = "hit", ![t].memAtCall = cust[t] \in DOMAIN model_cache]
               /\ Goto(t, "gf468")
            \/ /\ ~RedisHas(ModelKey(cust[t]))
               /\ obs' = [obs EXCEPT ![t].redis = "miss", ![t].memAtCall = cust[t] \in DOMAIN model_cache]
               /\ Goto(t, "L111")
               /\ UNCHANGED bundleLocals
            \/ /\ obs' = [obs EXCEPT ![t].redis = "error", ![t].memAtCall = cust[t] \in DOMAIN model_cache]
               /\ Goto(t, "L111")
               /\ UNCHANGED bundleLocals
       ELSE /\ obs' = [obs EXCEPT ![t].redis = "skip", ![t].memAtCall = cust[t] \in DOMAIN model_cache]
            /\ Goto(t, "L111")
            /\ UNCHANGED bundleLocals
  /\ UNCHANGED <<authVars, pipeVars, updVars, requests, envVars, redis, memVars, tmpVars, registry, frame, cust>>

\* (mutant) the memory tier is not consulted
MemoryHit_never(c) == FALSE
\* line 111: if customer_id in model_cache
MemoryHit(c) == c \in DOMAIN model_cache

\* lines 111-118: the memory tier, then the test that the cold store exists
L111(t) ==
  /\ pc[t] = "L111"
  /\ obs' = [obs EXCEPT ![t].mem = IF cust[t] \in DOMAIN model_cache THEN "hit" ELSE "miss"]
  /\ IF MemoryHit(cust[t])
       THEN Goto(t, "L113m")
       ELSE IF s3 THEN Goto(t, "L123") ELSE Raise(t, "AWS S3 client not available")
  /\ UNCHANGED <<authVars, pipeVars, updVars, requests, envVars, redis, memVars, tmpVars, registry, bundleLocals, frame, cust>>

\* line 113: return model_cache[c], encoders_cache[c], config_cache.get(c)
L113m(t) ==
  /\ pc[t] = "L113m"
  /\ model' = [model EXCEPT ![t] = model_cache[cust[t]]]
  /\ Goto(t, "L113e")
  /\ UNCHANGED <<authVars, pipeVars, updVars, requests, envVars, redis, memVars, tmpVars, registry, encoders, config, frame, cust, obs>>

L113e(t) ==
  /\ pc[t] = "L113e"
  /\ IF cust[t] \in DOMAIN encoders_cache
       THEN /\ encoders' = [encoders EXCEPT ![t] = encoders_cache[cust[t]]]
            /\ Goto(t, "L113c")
       ELSE /\ encoders' = encoders
            /\ Raise(t, "KeyError")
  /\ UNCHANGED <<authVars, pipeVars, updVars, requests, envVars, redis, memVars, tmpVars, registry, model, config, frame, cust, obs>>

L113c(t) ==
  /\ pc[t] = "L113c"
  /\ config' = [config EXCEPT ![t] = DictGet(config_cache, cust[t])]
  /\ Goto(t, "gf468")
  /\ UNCHANGED <<authVars, pipeVars, updVars, requests, envVars, redis, memVars, tmpVars, registry, model, encoders, frame, cust, obs>>

\* lines 122-124: read latest_model.json (the read may fail)
L123(t) ==
  /\ pc[t] = "L123"
  /\ obs' = [obs EXCEPT ![t].cold = TRUE]
  /\ \/ /\ registry' = [registry EXCEPT ![t] = cold]
        /\ Goto(t, "L131")
     \/ /\ registry' = registry
        /\ Raise(t, "registry read failed")
  /\ UNCHANGED <<authVars, pipeVars, updVars, requests, envVars, redis, memVars, tmpVars, bundleLocals, frame, cust>>

\* line 131: s3.download_file(bucket, model_path, '/tmp/model_<c>.h5')
L131(t) ==
  /\ pc[t] = "L131"
  /\ \/ /\ tmpModel' = File(registry[t].ver)
        /\ Goto(t, "L132")
     \/ /\ tmpModel' = tmpModel
        /\ Raise(t, "model download failed")
  /\ UNCHANGED <<authVars, pipeVars, updVars, requests, envVars, redis, memVars, tmpEnc, registry, bundleLocals, frame, cust, obs>>

\* (mutant) the model is put in model_cache as soon as it is loaded
L132_cacheEarly(t) ==
  /\ pc[t] = "L132"
  /\ IF tmpModel.kind = "file"
       THEN /\ model' = [model EXCEPT ![t] = Obj(tmpModel.ver)]
            /\ model_cache' = Put(model_cache, cust[t], Obj(tmpModel.ver))
            /\ obs' = [obs EXCEPT ![t].wrote = @ \cup {"model_cache"}]
            /\ Goto(t, "L139")
       ELSE /\ model' = model
            /\ UNCHANGED <<model_cache, obs>>
            /\ Raise(t, "model file missing")
  /\ UNCHANGED <<authVars, pipeVars, updVars, requests, envVars, redis, encoders_cache, config_cache, tmpVars, registry, encoders, config, frame, cust>>

\* line 132: model = load_model(local_model_path)
L132(t) ==
  /\ pc[t] = "L132"
  /\ IF tmpModel.kind = "file"
       THEN /\ model' = [model EXCEPT ![t] = Obj(tmpModel.ver)]
            /\ Goto(t, "L139")
       ELSE /\ model' = model
            /\ Raise(t, "model file missing")
  /\ UNCHANGED <<authVars, pipeVars, updVars, requests, envVars, redis, memVars, tmpVars, registry, encoders, config, frame, cust, obs>>

\* line 139: s3.download_file(bucket, encoders_path, '/tmp/encoders_<c>.pkl')
L139(t) ==
  /\ pc[t] = "L139"
  /\ \/ /\ tmpEnc' = File(registry[t].ver)
        /\ Goto(t, "L140")
     \/ /\ tmpEnc' = tmpEnc
        /\ Raise(t, "encoders download failed")
  /\ UNCHANGED <<authVars, pipeVars, updVars, requests, envVars, redis, memVars, tmpModel, registry, bundleLocals, frame, cust, obs>>

\* line 140: encoders = joblib.load(local_encoders_path)
L140(t) ==
  /\ pc[t] = "L140"
  /\ IF tmpEnc.kind = "file"
       THEN /\ encoders' = [encoders EXCEPT ![t] = Obj(tmpEnc.ver)]
            /\ Goto(t, "L146")
       ELSE /\ encoders' = encoders
            /\ Raise(t, "encoders file missing")
  /\ UNCHANGED <<authVars, pipeVars, updVars, requests, envVars, redis, memVars, tmpVars, registry, model, config, frame, cust, obs>>

\* lines 145-149: config = None; if 'config_path' in registry: read it
L146(t) ==
  /\ pc[t] = "L146"
  /\ IF registry[t].cfg
       THEN \/ /\ config' = [config EXCEPT ![t] = Json(registry[t].ver)]
               /\ Goto(t, "L152")
            \/ /\ config' = config
               /\ Raise(t, "config read failed")
       ELSE /\ config' = [config EXCEPT ![t] = NoneV]
            /\ Goto(t, "L152")
  /\ UNCHANGED <<authVars, pipeVars, updVars, requests, envVars, redis, memVars, tmpVars, registry, model, encoders, frame, cust, obs>>

\* lines 152-154: cache in memory, one dict assignment at a time
L152(t) ==
  /\ pc[t] = "L152"
  /\ model_cache' = Put(model_cache, cust[t], model[t])
  /\ obs' = [obs EXCEPT ![t].wrote = @ \cup {"model_cache"}]
  /\ Goto(t, "L153")
  /\ UNCHANGED <<authVars, pipeVars, updVars, requests, envVars, redis, encoders_cache, config_cache, tmpVars, registry, bundleLocals, frame, cust>>

L153(t) ==
  /\ pc[t] = "L153"
  /\ encoders_cache' = Put(encoders_cache, cust[t], encoders[t])
  /\ obs' = [obs EXCEPT ![t].wrote = @ \cup {"encoders_cache"}]
  /\ Goto(t, "L154")
  /\ UNCHANGED <<authVars, pipeVars, updVars, requests, envVars, redis, model_cache, config_cache, tmpVars, registry, bundleLocals, frame, cust>>

L154(t) ==
  /\ pc[t] = "L154"
  /\ config_cache' = Put(config_cache, cust[t], config[t])
  /\ obs' = [obs EXCEPT ![t].wrote = @ \cup {"config_cache"}]
  /\ Goto(t, "L157")
  /\ UNCHANGED <<authVars, pipeVars, updVars, requests, envVars, redis, model_cache, encoders_cache, tmpVars, registry, bundleLocals, frame, cust>>

\* lines 157-167: cache in Redis; a json.dumps or setex that raises is
\* logged and ignored
L157(t) ==
  /\ pc[t] = "L157"
  /\ IF redis_client
       THEN \/ /\ redis' = RedisSetex(ModelKey(cust[t]), MODEL_CACHE_TTL, ModelEntry(model[t], encoders[t], config[t]))
               /\ obs' = [obs EXCEPT ![t].wrote = @ \cup {"redis"}]
            \/ /\ redis' = redis
               /\ obs' = [obs EXCEPT ![t].wrote = @ \cup {"redis failed"}]
       ELSE UNCHANGED <<redis, obs>>
  /\ Goto(t, "L170m")
  /\ UNCHANGED <<authVars, pipeVars, updVars, requests, envVars, memVars, tmpVars, registry, bundleLocals, frame, cust>>

\* lines 170-172: for temp_file in [model, encoders]:
\*                    if os.path.exists(temp_file): os.remove(temp_file)
L170m(t) ==
  /\ pc[t] = "L170m"
  /\ IF tmpModel.kind = "file" THEN Goto(t, "L172m") ELSE Goto(t, "L170e")
  /\ UNCHANGED <<authVars, pipeVars, updVars, requests, envVars, redis, memVars, tmpVars, registry, bundleLocals, frame, cust, obs>>

L172m(t) ==
  /\ pc[t] = "L172m"
  /\ IF tmpModel.kind = "file"
       THEN /\ tmpModel' = NoFile
            /\ Goto(t, "L170e")
       ELSE /\ tmpModel' = tmpModel
            /\ Raise(t, "FileNotFoundError")
  /\ UNCHANGED <<authVars, pipeVars, updVars, requests, envVars, redis, memVars, tmpEnc, registry, bundleLocals, frame, cust, obs>>

\* after the last temp file, line 174 returns model, encoders, config
L170e(t) ==
  /\ pc[t] = "L170e"
  /\ IF tmpEnc.kind = "file" THEN Goto(t, "L172e") ELSE Goto(t, "gf468")
  /\ UNCHANGED <<authVars, pipeVars, updVars, requests, envVars, redis, memVars, tmpVars, registry, bundleLocals, frame, cust, obs>>

L172e(t) ==
  /\ pc[t] = "L172e"
  /\ IF tmpEnc.kind = "file"
       THEN /\ tmpEnc' = NoFile
            /\ Goto(t, "gf468")
       ELSE /\ tmpEnc' = tmpEnc
            /\ Raise(t, "FileNotFoundError")
  /\ UNCHANGED <<authVars, pipeVars, updVars, requests, envVars, redis, memVars, tmpModel, registry, bundleLocals, frame, cust, obs>>

(* -------------- generate_forecast, lines 468-470 ----------------------- *)
gf468(t) ==
  /\ pc[t] = "gf468"
  /\ model_cache' = Put(model_cache, cust[t], model[t])
  /\ Goto(t, "gf469")
  /\ UNCHANGED <<authVars, pipeVars, updVars, requests, envVars, redis, encoders_cache, config_cache, tmpVars, registry, bundleLocals, frame, cust, obs>>

\* (mutant) line 469 is missing
gf469_skip(t) ==
  /\ pc[t] = "gf469"
  /\ Goto(t, "gf470")
  /\ UNCHANGED <<authVars, pipeVars, updVars, requests, envVars, redis, memVars, tmpVars, registry, bundleLocals, frame, cust, obs>>

gf469(t) ==
  /\ pc[t] = "gf469"
  /\ encoders_cache' = Put(encoders_cache, cust[t], encoders[t])
  /\ Goto(t, "gf470")
  /\ UNCHANGED <<authVars, pipeVars, updVars, requests, envVars, redis, model_cache, config_cache, tmpVars, registry, bundleLocals, frame, cust, obs>>

gf470(t) ==
  /\ pc[t] = "gf470"
  /\ config_cache' = Put(config_cache, cust[t], config[t])
  /\ Goto(t, "D187")
  /\ UNCHANGED <<authVars, pipeVars, updVars, requests, envVars, redis, model_cache, encoders_cache, tmpVars, registry, bundleLocals, frame, cust, obs>>

(* ---------------------- get_recent_customer_data ----------------------- *)
\* lines 186-199: the Redis tier, then the test that the cold store exists
D187(t) ==
  /\ pc[t] = "D187"
  /\ IF redis_client
       THEN \/ /\ RedisHas(DataKey(cust[t]))
               /\ frame' = [frame EXCEPT ![t] = ReadJson(redis[DataKey(cust[t])].val)]
               /\ obs' = [obs EXCEPT ![t].dredis = "hit"]
               /\ Goto(t, "done")
            \/ /\ ~RedisHas(DataKey(cust[t]))
               /\ obs' = [obs EXCEPT ![t].dredis = "miss"]
               /\ IF s3 THEN Goto(t, "D204") ELSE Raise(t, "AWS S3 client not available")
               /\ frame' = frame
            \/ /\ obs' = [obs EXCEPT ![t].dredis = "error"]
               /\ IF s3 THEN Goto(t, "D204") ELSE Raise(t, "AWS S3 client not available")
               /\ frame' = frame
       ELSE /\ obs' = [obs EXCEPT ![t].dredis = "skip"]
            /\ IF s3 THEN Goto(t, "D204") ELSE Raise(t, "AWS S3 client not available")
            /\ frame' = frame
  /\ UNCHANGED <<authVars, pipeVars, updVars, requests, envVars, redis, memVars, tmpVars, registry, bundleLocals, cust>>

\* lines 202-240: list the bucket, read the customer's csv, keep the recent
\* rows (any of the reads may fail)
D204(t) ==
  /\ pc[t] = "D204"
  /\ obs' = [obs EXCEPT ![t].dcold = TRUE]
  /\ \/ /\ frame' = [frame EXCEPT ![t] = coldFrame]
        /\ Goto(t, "D243")
     \/ /\ frame' = frame
        /\ Raise(t, "data read failed")
  /\ UNCHANGED <<authVars, pipeVars, updVars, requests, envVars, redis, memVars, tmpVars, registry, bundleLocals, cust>>

\* lines 243-250: cache in Redis (a failure is logged and ignored), return
D243(t) ==
  /\ pc[t] = "D243"
  /\ IF redis_client
       THEN \/ /\ redis' = RedisSetex(DataKey(cust[t]), DATA_CACHE_TTL, ToJson(frame[t]))
               /\ obs' = [obs EXCEPT ![t].wrote = @ \cup {"redis data"}]
            \/ /\ redis' = redis
               /\ obs' = [obs EXCEPT ![t].wrote = @ \cup {"redis data failed"}]
       ELSE UNCHANGED <<redis, obs>>
  /\ Goto(t, "done")
  /\ UNCHANGED <<authVars, pipeVars, updVars, requests, envVars, memVars, tmpVars, registry, bundleLocals, frame, cust>>

\* the response is sent; the thread is free for the next request
Respond(t) ==
  /\ pc[t] \in {"done", "err500"}
  /\ pc' = [pc EXCEPT ![t] = "idle"]
  /\ err' = [err EXCEPT ![t] = ""]
  /\ registry' = [registry EXCEPT ![t] = NoReg]
  /\ model' = [model EXCEPT ![t] = NoneV]
  /\ encoders' = [encoders EXCEPT ![t] = NoneV]
  /\ config' = [config EXCEPT ![t] = NoneV]
  /\ frame' = [frame EXCEPT ![t] = NoFrame]
  /\ obs' = [obs EXCEPT ![t] = NoObs]
  /\ UNCHANGED <<authVars, pipeVars, updVars, requests, envVars, redis, memVars, tmpVars, cust>>

(* --------------------------- environment ------------------------------- *)
\* Time passes.  Only the Redis operations read the clock, so the model
\* lets it advance when a thread stands before one of them.
AtRedis(t) == pc[t] \in {"L100", "D187"}

Tick ==
  /\ now < MaxTicks * DATA_CACHE_TTL
  /\ \E t \in Threads : AtRedis(t)
  /\ now' = now + DATA_CACHE_TTL
  /\ UNCHANGED <<authVars, pipeVars, updVars, requests, s3, redis_client, cold, coldFrame, redis, memVars, tmpVars, pc, cust, registry, bundleLocals, frame, err, obs>>

\* the training pipeline publishes a new bundle and registry document
\* (only the read of the registry document, line 123, observes it)
Publish ==
  /\ cold.ver < MaxVersion
  /\ \E t \in Threads : pc[t] = "L123"
  /\ cold' = Registry(cold.ver + 1, cold.cfg)
  /\ UNCHANGED <<authVars, pipeVars, updVars, requests, now, s3, redis_client, coldFrame, redis, memVars, tmpVars, pc, cust, registry, bundleLocals, frame, err, obs>>

Step(t) ==
  \/ Request(t) \/ gf466(t) \/ gf473(t) \/ gf474(t) \/ gf475(t)
  \/ L100(t) \/ L111(t) \/ L113m(t) \/ L113e(t) \/ L113c(t)
  \/ L123(t) \/ L131(t) \/ L132(t) \/ L139(t) \/ L140(t) \/ L146(t)
  \/ L152(t) \/ L153(t) \/ L154(t) \/ L157(t)
  \/ L170m(t) \/ L172m(t) \/ L170e(t) \/ L172e(t)
  \/ gf468(t) \/ gf469(t) \/ gf470(t)
  \/ D187(t) \/ D204(t) \/ D243(t) \/ Respond(t)

Next == (\E t \in Threads : Step(t)) \/ Tick

Spec == Init /\ [][Next]_vars

\* the same service while the training pipeline publishes new bundles
NextV == (\E t \in Threads : Step(t)) \/ Tick \/ Publish

SpecV == Init /\ [][NextV]_vars

(* ---------------------------- model updater ---------------------------- *)
\* datetime.now() on the updater's host
clock == now + skew

\* POST /update or the weekly schedule calls update_customer_model
Refresh ==
  /\ upd.pc = "idle"
  /\ upd' = [UpdIdle EXCEPT !.pc = "U114"]
  /\ UNCHANGED <<authVars, pipeVars, now, redis, apiVars, skew, upd_s3, upd_redis_client, chk>>

\* lines 114-116: registry = get_model_registry(customer_id); without an s3
\* client or when the read fails it is None and the update returns False
U114 ==
  /\ upd.pc = "U114"
  /\ \/ /\ upd_s3
        /\ upd' = [upd EXCEPT !.pc = "U128", !.reg = TRUE]
     \/ upd' = [upd EXCEPT !.pc = "idle", !.ret = "False"]
  /\ UNCHANGED <<authVars, pipeVars, now, redis, apiVars, skew, upd_s3, upd_redis_client, chk>>

\* lines 125-129: download the model file; a failed download clears success
U128 ==
  /\ upd.pc = "U128"
  /\ \/ upd' = [upd EXCEPT !.pc = "U135"]
     \/ upd' = [upd EXCEPT !.pc = "U135", !.success = FALSE, !.modelFailed = TRUE]
  /\ UNCHANGED <<authVars, pipeVars, now, redis, apiVars, skew, upd_s3, upd_redis_client, chk>>

\* lines 132-136: download the encoders file
U135 ==
  /\ upd.pc = "U135"
  /\ \/ upd' = [upd EXCEPT !.pc = "U142"]
     \/ upd' = [upd EXCEPT !.pc = "U142", !.success = FALSE, !.encFailed = TRUE]
  /\ UNCHANGED <<authVars, pipeVars, now, redis, apiVars, skew, upd_s3, upd_redis_client, chk>>

\* (mutant) a failed config download clears success as well
U142_strict ==
  /\ upd.pc = "U142"
  /\ IF cold.cfg
       THEN \/ upd' = [upd EXCEPT !.pc = "U147"]
            \/ upd' = [upd EXCEPT !.pc = "U147", !.cfgFailed = TRUE, !.success = FALSE]
       ELSE upd' = [upd EXCEPT !.pc = "U147"]
  /\ UNCHANGED <<authVars, pipeVars, now, redis, apiVars, skew, upd_s3, upd_redis_client, chk>>

\* lines 139-144: download the config file when the registry names one; a
\* failure is only logged
U142 ==
  /\ upd.pc = "U142"
  /\ IF cold.cfg
       THEN \/ upd' = [upd EXCEPT !.pc = "U147"]
            \/ upd' = [upd EXCEPT !.pc = "U147", !.cfgFailed = TRUE]
       ELSE upd' = [upd EXCEPT !.pc = "U147"]
  /\ UNCHANGED <<authVars, pipeVars, now, redis, apiVars, skew, upd_s3, upd_redis_client, chk>>

\* lines 147-167: write the freshness record when a client exists and the
\* downloads succeeded (a write that raises is logged), return success
U147 ==
  /\ upd.pc = "U147"
  /\ IF upd_redis_client /\ upd.success
       THEN \/ /\ redis' = RedisSetex(FreshKey(CUSTOMER_ID), 3600, FreshRecord(clock, cold))
               /\ upd' = [upd EXCEPT !.pc = "idle", !.wrote = "written", !.ret = "True"]
            \/ /\ redis' = redis
               /\ upd' = [upd EXCEPT !.pc = "idle", !.wrote = "failed", !.ret = "True"]
       ELSE /\ redis' = redis
            /\ upd' = [upd EXCEPT !.pc = "idle", !.ret = IF upd.success THEN "True" ELSE "False"]
  /\ UNCHANGED <<authVars, pipeVars, now, apiVars, skew, upd_s3, upd_redis_client, chk>>

\* (mutant) a record exactly seven days old counts as older
OlderThan_ge(age) == age >= SEVEN_DAYS
\* line 202: datetime.now() - updated_at > timedelta(days=7)
OlderThan(age) == age > SEVEN_DAYS

\* (mutant) without a client the check answers as for a missing record
NoClientResult_absent == [needs_update |-> TRUE, reason |-> "No cached model", seen |-> "no client", age |-> 0]
\* lines 188-189: if not redis_client
NoClientResult == [needs_update |-> TRUE, reason |-> "Redis not available", seen |-> "no client", age |-> 0]

\* check_model_freshness(customer_id): the results the call can return.
\* seen and age record what the call met: no client, a get that raised, no
\* entry, an entry json.loads rejects, or a record and its age.  The reason
\* f'Error: {e}' is written "Error".
check_model_freshness(c) ==
  IF ~upd_redis_client
    THEN {NoClientResult}
    ELSE {[needs_update |-> TRUE, reason |-> "Error", seen |-> "get raised", age |-> 0]} \cup
         (IF ~RedisHas(FreshKey(c))
            THEN {[needs_update |-> TRUE, reason |-> "No cached model", seen |-> "absent", age |-> 0]}
            ELSE IF redis[FreshKey(c)].val.kind # "json"
              THEN {[needs_update |-> TRUE, reason |-> "Error", seen |-> "unreadable", age |-> 0]}
              ELSE IF OlderThan(clock - fromisoformat(redis[FreshKey(c)].val.updated_at))
                THEN {[needs_update |-> TRUE, reason |-> "Model older than 7 days", seen |-> "record", age |-> clock - fromisoformat(redis[FreshKey(c)].val.updated_at)]}
                ELSE {[needs_update |-> FALSE, reason |-> "Model is fresh", seen |-> "record", age |-> clock - fromisoformat(redis[FreshKey(c)].val.updated_at)]})

\* (mutant) a check that finds no record also drops the customer's bundle
\* entry from Redis
Status_evict ==
  /\ chk' \in check_model_freshness(CUSTOMER_ID)
  /\ redis' = IF chk'.seen = "absent" THEN [k \in (DOMAIN redis) \ {ModelKey(CUSTOMER_ID)} |-> redis[k]] ELSE redis
  /\ UNCHANGED <<authVars, pipeVars, now, apiVars, skew, upd_s3, upd_redis_client, upd>>

\* GET /status calls check_model_freshness for the customer
Status ==
  /\ chk' \in check_model_freshness(CUSTOMER_ID)
  /\ UNCHANGED <<authVars, pipeVars, now, redis, apiVars, skew, upd_s3, upd_redis_client, upd>>

\* time passes for the updater and for Redis alike
TickU ==
  /\ now < MaxTicks * DATA_CACHE_TTL
  /\ now' = now + DATA_CACHE_TTL
  /\ UNCHANGED <<authVars, pipeVars, redis, apiVars, updVars>>

\* The wall clock of the updater's host is set forward, by six days and then
\* by a day at a time (datetime.now() is the local wall clock, Redis expires
\* keys by its own timer).  Only the age of a stored record observes the wall
\* clock, so the model lets the clock be set while a record is stored.
ClockSet ==
  /\ skew < MaxSkewDays * 86400
  /\ RedisHas(FreshKey(CUSTOMER_ID))
  /\ skew' = IF skew = 0 THEN 6 * 86400 ELSE skew + 86400
  /\ UNCHANGED <<authVars, pipeVars, now, redis, apiVars, upd_s3, upd_redis_client, upd, chk>>

\* Redis at the updater's start: empty, or holding at the freshness key a
\* value another writer left there without expiry
ForeignRedis == FreshKey(CUSTOMER_ID) :> [val |-> ForeignValue, exp |-> MaxTicks * DATA_CACHE_TTL + 1, wr |-> 0]

InitU ==
  /\ now = 0
  /\ s3 = TRUE
  /\ redis_client = TRUE
  /\ cold \in {Registry(1, c) : c \in BOOLEAN}
  /\ coldFrame = ColdFrame
  /\ redis \in {<<>>, ForeignRedis}
  /\ model_cache = <<>>
  /\ encoders_cache = <<>>
  /\ config_cache = <<>>
  /\ tmpModel = NoFile
  /\ tmpEnc = NoFile
  /\ pc = [t \in Threads |-> "idle"]
  /\ cust = [t \in Threads |-> CUSTOMER_ID]
  /\ registry = [t \in Threads |-> NoReg]
  /\ model = [t \in Threads |-> NoneV]
  /\ encoders = [t \in Threads |-> NoneV]
  /\ config = [t \in Threads |-> NoneV]
  /\ frame = [t \in Threads |-> NoFrame]
  /\ err = [t \in Threads |-> ""]
  /\ obs = [t \in Threads |-> NoObs]
  /\ requests = 0
  /\ skew = 0
  /\ upd_s3 \in BOOLEAN
  /\ upd_redis_client \in BOOLEAN
  /\ upd = UpdIdle
  /\ chk = NoChk
  /\ recent_data = EmptyFrame
  /\ pipe_customer = 0
  /\ pipe_encoders = EncNone
  /\ seq_length = SEQ_LENGTH
  /\ featured_data = EmptyFrame
  /\ X = NoX
  /\ ppc = "off"
  /\ forecast_hours = FORECAST_HOURS
  /\ predictions = <<>>
  /\ forecasts = <<>>
  /\ request = NoRequest
  /\ g_forecast_data = NoData
  /\ environ = NoEnviron
  /\ areq = NoAuthRequest
  /\ aresp = NoResponse
  /\ apc = "off"

\* the model updater service
NextU == Refresh \/ U114 \/ U128 \/ U135 \/ U142 \/ U147 \/ Status \/ TickU \/ ClockSet

SpecU == InitU /\ [][NextU]_vars

\* The model updater over weeks: its only writer of the freshness key is
\* update_customer_model, its clock and Redis' timer are the same clock,
\* and between two calls eight days may pass at once.
LongWait ==
  /\ now < MaxWaits * 8 * 86400
  /\ now' = now + 8 * 86400
  /\ UNCHANGED <<authVars, pipeVars, redis, apiVars, updVars>>

InitUT == InitU /\ redis = <<>>

NextUT == Refresh \/ U114 \/ U128 \/ U135 \/ U142 \/ U147 \/ Status \/ TickU \/ LongWait

SpecUT == InitUT /\ [][NextUT]_vars

\* the model updater next to a request thread of the forecasting API, both
\* on the same Redis
InitUF == InitU /\ upd_s3 /\ upd_redis_client /\ redis = <<>>

\* A lone request thread.  The memory-tier return of load_customer_model
\* (line 113) needs another thread to fill model_cache between line 466 and
\* line 111, so a lone thread never takes it.
StepSolo(t) ==
  \/ Request(t) \/ gf466(t) \/ gf473(t) \/ gf474(t) \/ gf475(t)
  \/ L100(t) \/ L111(t)
  \/ L123(t) \/ L131(t) \/ L132(t) \/ L139(t) \/ L140(t) \/ L146(t)
  \/ L152(t) \/ L153(t) \/ L154(t) \/ L157(t)
  \/ L170m(t) \/ L172m(t) \/ L170e(t) \/ L172e(t)
  \/ gf468(t) \/ gf469(t) \/ gf470(t)
  \/ D187(t) \/ D204(t) \/ D243(t) \/ Respond(t)

NextUF == Refresh \/ U114 \/ U128 \/ U135 \/ U142 \/ U147 \/ Status \/ TickU \/ StepSolo("t1")

SpecUF == InitUF /\ [][NextUF]_vars

(* -------------------------- inference pipeline ------------------------- *)
\* lines 266-267: add the customer_id column when the frame has none
WithCustomer(df, customer_id) == IF "customer_id" \in df.cols THEN df ELSE Assign(df, "customer_id", Broadcast(df, Cat(customer_id)))

\* lines 269-291: the three encoded columns
Encoded(df, customer_id, encs) ==
  LET d1 == WithCustomer(df, customer_id)
      d2 == Assign(d1, "customer_encoded", EncodedOrDefault(encs, "customer_encoder", Column(d1, "customer_id")))
      d3 == Assign(d2, "manufacturer_encoded", IF "manufacturer" \in d2.cols THEN EncodedOrDefault(encs, "manufacturer_encoder", Column(d2, "manufacturer")) ELSE Broadcast(d2, Num(0)))
  IN Assign(d3, "region_encoded", IF "region" \in d3.cols THEN EncodedOrDefault(encs, "region_encoder", Column(d3, "region")) ELSE Broadcast(d3, Num(0)))

\* lines 293-297: hour, day_of_week, month, is_weekend.  Hour 0 is Monday
\* 1 January 00:00 and the model's timestamps stay inside January.
TimeFeatures(df) ==
  LET ts == Column(df, "timestamp")
      d1 == Assign(df, "hour", [i \in 1..Len(ts) |-> Num(ts[i].a % 24)])
      d2 == Assign(d1, "day_of_week", [i \in 1..Len(ts) |-> Num((ts[i].a \div 24) % 7)])
      d3 == Assign(d2, "month", Broadcast(d2, Num(1)))
  IN Assign(d3, "is_weekend", [i \in 1..Len(ts) |-> Num(IF (ts[i].a \div 24) % 7 >= 5 THEN 1 ELSE 0)])

\* lines 301-316: the frame-level statistics of kWh, their copies, the
\* mean per hour of day and the two ratios
Stats(df) ==
  LET kwh == Column(df, "kWh")
      hour == Column(df, "hour")
      all == 1..Len(kwh)
      d1 == Assign(df, "customer_kwh_mean", Broadcast(df, MeanOf(kwh, all)))
      d2 == Assign(d1, "customer_kwh_std", Broadcast(df, StdOf(kwh, all)))
      d3 == Assign(d2, "customer_kwh_min", Broadcast(df, MinOf(kwh, all)))
      d4 == Assign(d3, "customer_kwh_max", Broadcast(df, MaxOf(kwh, all)))
      d5 == Assign(d4, "mfg_kwh_mean", Column(d4, "customer_kwh_mean"))
      d6 == Assign(d5, "mfg_kwh_std", Column(d5, "customer_kwh_std"))
      d7 == Assign(d6, "mfg_kwh_min", Column(d6, "customer_kwh_min"))
      d8 == Assign(d7, "mfg_kwh_max", Column(d7, "customer_kwh_max"))
      d9 == Assign(d8, "regional_hourly_kwh_mean", [i \in all |-> MeanOf(kwh, {j \in all : hour[j] = hour[i]})])
      d10 == Assign(d9, "kwh_vs_customer_mean", [i \in all |-> Ratio(kwh[i], MeanOf(kwh, all))])
  IN Assign(d10, "kwh_vs_mfg_mean", [i \in all |-> Ratio(kwh[i], MeanOf(kwh, all))])

\* (mutant) the shift is taken from 24 rows on
UsesShift_early(n) == n > 23
\* line 322: if len(df) > 24
UsesShift(n) == n > 24

\* lines 320-329, on the sorted frame: the two lags and the rolling columns
Lags(df) ==
  LET kwh == Column(df, "kWh")
      all == 1..Len(kwh)
      d1 == Assign(df, "kwh_lag_1h", Shift(kwh, 1))
      d2 == Assign(d1, "kwh_lag_24h", IF UsesShift(nrows(df)) THEN Shift(kwh, 24) ELSE Broadcast(df, MeanOf(kwh, all)))
      d3 == Assign(d2, "kwh_rolling_mean_6h", [i \in all |-> MeanOf(kwh, Rolling(i, 6))])
  IN Assign(d3, "kwh_rolling_std_6h", [i \in all |-> StdOf(kwh, Rolling(i, 6))])

\* prepare_features_for_inference(data_df, customer_id, encoders): the
\* frames the call can return (one for each result of the sort)
prepare_features_for_inference(data_df, customer_id, encs) ==
  IF "kWh" \in data_df.cols
    THEN {fillna(Lags(sorted)) : sorted \in sort_values(Stats(TimeFeatures(Encoded(data_df, customer_id, encs))))}
    ELSE {fillna(TimeFeatures(Encoded(data_df, customer_id, encs)))}

\* lines 486-490: the columns handed to the model
exclude_cols == {"timestamp", "customer_id", "manufacturer", "region", "location", "client_id", "serial_number", "datetime"}
target_cols == {"kWh", "kVArh", "kVA", "PF"}
FeatureCols(df) == df.cols \ (exclude_cols \cup target_cols)

\* line 355, 358: df.iloc[i-seq_length:i][feature_cols].values
Window(df, feature_cols, i, L) == [r \in 1..L |-> [c \in feature_cols |-> df.rows[i - L + r][c]]]
\* (mutant) a window is kept whatever its cells hold
WindowKept_any(df, feature_cols, i, L) == feature_cols \subseteq df.cols
\* lines 357-364: the window is kept when selecting the columns does not
\* raise, np.isnan does not raise (it does on a column of strings) and no
\* cell is NaN
WindowKept(df, feature_cols, i, L) == feature_cols \subseteq df.cols /\ \A r \in 1..L : \A c \in feature_cols : ~isna(df.rows[i - L + r][c]) /\ df.rows[i - L + r][c].k # "str"
\* (mutant) the loop starts one row late
FirstEnd_late(L) == L + 1
\* line 354: for i in range(seq_length, len(df) + 1)
FirstEnd(L) == L
\* lines 350-374 on the sorted frame
SequencesOf(df, feature_cols, L) ==
  LET ends == [j \in 1..(nrows(df) + 1 - FirstEnd(L)) |-> FirstEnd(L) + j - 1]
      kept(i) == WindowKept(df, feature_cols, i, L)
      keptEnds == SelectSeq(ends, kept)
  IN IF nrows(df) < L
       THEN [err |-> "Insufficient data for sequence creation", seqs |-> <<>>]
       ELSE IF keptEnds = <<>>
         THEN [err |-> "No valid sequences created", seqs |-> <<>>]
         ELSE [err |-> "", seqs |-> [j \in 1..Len(keptEnds) |-> Window(df, feature_cols, keptEnds[j], L)]]
\* create_sequences_for_inference(data_df, feature_cols, seq_length): the
\* results the call can give (one for each result of the sort)
create_sequences_for_inference(data_df, feature_cols, L) == {SequencesOf(sorted, feature_cols, L) : sorted \in sort_values(data_df)}

\* line 483: featured_data = prepare_features_for_inference(recent_data, customer_id, encoders)
P483 ==
  /\ ppc = "P483"
  /\ featured_data' \in prepare_features_for_inference(recent_data, pipe_customer, pipe_encoders)
  /\ ppc' = "P497"
  /\ UNCHANGED <<authVars, now, redis, apiVars, updVars, recent_data, pipe_customer, pipe_encoders, seq_length, X, forecast_hours, predictions, forecasts, request, g_forecast_data>>

\* lines 486-497: X = create_sequences_for_inference(featured_data, feature_cols, seq_length)
P497 ==
  /\ ppc = "P497"
  /\ X' \in create_sequences_for_inference(featured_data, FeatureCols(featured_data), seq_length)
  /\ ppc' = IF X'.err = "" THEN "P501" ELSE "err500"
  /\ UNCHANGED <<authVars, now, redis, apiVars, updVars, recent_data, pipe_customer, pipe_encoders, seq_length, featured_data, forecast_hours, predictions, forecasts, request, g_forecast_data>>

\* model.predict(X): one output vector for each window of the batch, in the
\* order of the batch.  What the network computes is left open: output j
\* for a window is the pair of the window and j.
predict(Xs) == [k \in 1..Len(Xs) |-> [j \in 1..ModelOutputs |-> [window |-> Xs[k], output |-> j]]]

\* lines 501: predictions = model.predict(X, verbose=0).  A bundle decoded
\* from the Redis tier holds the text str(model) in place of the model (its
\* encoders are text as well), and a str has no predict.
P501 ==
  /\ ppc = "P501"
  /\ IF pipe_encoders.kind = "str"
       THEN /\ predictions' = predictions
            /\ ppc' = "err500"
       ELSE /\ predictions' = predict(X.seqs)
            /\ ppc' = "P509"
  /\ UNCHANGED <<authVars, now, redis, apiVars, updVars, recent_data, pipe_customer, pipe_encoders, seq_length, featured_data, X, forecast_hours, forecasts, request, g_forecast_data>>

\* Python's seq[k] for a negative k
NegIndex(seq, k) == seq[Len(seq) + k + 1]
\* line 488: the target columns the frame has, in the order of target_cols
target_list == <<"kWh", "kVArh", "kVA", "PF">>
available_targets(df) == SelectSeq(target_list, LAMBDA c : c \in df.cols)
Min(a, b) == IF a < b THEN a ELSE b
\* (mutant) the loop runs over every prediction
PointCount_all(H, n) == n
\* line 517: range(min(forecast_hours, len(predictions)))
PointCount(H, n) == IF Min(H, n) < 0 THEN 0 ELSE Min(H, n)
\* lines 518-530 for the loop index i (from 0): the forecast entry
forecast_entry(i, preds, last_timestamp, targets) ==
  LET pred == NegIndex(preds, 0 - (Len(preds) - i))
  IN [timestamp |-> isoformat(last_timestamp + (i + 1)),
      hour_ahead |-> i + 1,
      values |-> [c \in {targets[j] : j \in 1..Min(Len(targets), Len(pred))} |-> pred[CHOOSE j \in 1..Len(targets) : targets[j] = c]]]

\* lines 509-551: the forecast points and the 200 response
P509 ==
  /\ ppc = "P509"
  /\ LET last_timestamp == MaxOf(Column(featured_data, "timestamp"), 1..nrows(featured_data)).a
     IN forecasts' = [p \in 1..PointCount(forecast_hours, Len(predictions)) |-> forecast_entry(p - 1, predictions, last_timestamp, available_targets(featured_data))]
  /\ ppc' = "done200"
  /\ UNCHANGED <<authVars, now, redis, apiVars, updVars, recent_data, pipe_customer, pipe_encoders, seq_length, featured_data, X, forecast_hours, predictions, request, g_forecast_data>>

(* ------------------------- edge device registry ------------------------ *)
\* os.environ.get(name, default).strip(): the default for an unset variable
Getenv(v, default) == IF v.set THEN v.text ELSE default
\* lines 39-41: _get_auth_mode
get_auth_mode == Getenv(environ.mode, "monitor")
\* lines 44-59: _get_allowed_api_keys, the non-empty keys of both variables
get_allowed_api_keys ==
  (IF Getenv(environ.api_key, "") # "" THEN {Getenv(environ.api_key, "")} ELSE {})
  \cup {environ.allowed_api_keys[i] : i \in {j \in 1..Len(environ.allowed_api_keys) : environ.allowed_api_keys[j] # ""}}
\* request.path.startswith("/api/")
ApiPaths == {"/api/devices", "/api/devices/d1"}
\* (mutant) OPTIONS requests are checked like the others
InScope_options(r) == r.path \in ApiPaths
\* lines 68-71: the requests the hook looks at
InScope(r) == r.path \in ApiPaths /\ r.method # "OPTIONS"
\* line 78: headers.get("X-API-Key") or headers.get("x-api-key"); None
\* and the empty text are both falsy
presented_key(r) == IF r.has_key THEN r.key ELSE ""
\* (mutant) a key outside the configured set is let through
Denied_never(allowed_keys, key) == FALSE
\* line 94: allowed_keys and presented_key not in allowed_keys
Denied(allowed_keys, key) == allowed_keys # {} /\ key \notin allowed_keys

\* lines 62-97: _observe_auth_bypass, what it returns for the request
observe_auth_bypass(r) ==
  IF ~InScope(r) THEN NoResponse
  ELSE IF get_auth_mode \notin {"monitor", "enforce"}
    THEN [NoResponse EXCEPT !.metrics = <<"AuthModeInvalidConfig">>]
  ELSE IF get_auth_mode = "enforce" /\ get_allowed_api_keys = {}
    THEN [status |-> 503, error |-> "Authentication configuration unavailable", metrics |-> <<"AuthModeInvalidConfig">>]
  ELSE IF presented_key(r) = ""
    THEN IF get_auth_mode = "enforce"
           THEN [status |-> 401, error |-> "Missing API key", metrics |-> <<"AuthBypass">>]
           ELSE [NoResponse EXCEPT !.metrics = <<"AuthBypass">>]
  ELSE IF Denied(get_allowed_api_keys, presented_key(r))
    THEN IF get_auth_mode = "enforce"
           THEN [status |-> 401, error |-> "Invalid API key", metrics |-> <<"AuthDenied">>]
           ELSE [NoResponse EXCEPT !.metrics = <<"AuthDenied">>]
  ELSE NoResponse

\* Flask runs the before-request hook ...
BeforeRequest ==
  /\ apc = "before_request"
  /\ aresp' = observe_auth_bypass(areq)
  /\ apc' = "dispatch"
  /\ UNCHANGED <<pipeVars, now, redis, apiVars, updVars, environ, areq>>

\* ... and calls the view only when the hook returned None; otherwise the
\* hook's return value is the response
Dispatch ==
  /\ apc = "dispatch"
  /\ apc' = IF aresp.status = 0 THEN "handler" ELSE "rejected"
  /\ UNCHANGED <<pipeVars, now, redis, apiVars, updVars, environ, areq, aresp>>

\* the environments and requests of the device registry
Modes == {EnvUnset} \cup {EnvText(m, raw) : m \in {"monitor", "enforce"}, raw \in BOOLEAN} \cup {EnvText("off", FALSE), EnvText("", FALSE)}
ApiKeys == {EnvUnset, EnvText("", TRUE), EnvText("k1", FALSE)}
KeyLists == {<<>>, <<"">>, <<"k2">>, <<"k1", "">>, <<"k2", "k3">>}
AuthRequests ==
  {[path |-> p, method |-> m, has_key |-> hk, key |-> IF hk THEN k ELSE ""] :
     p \in ApiPaths \cup {"/health"}, m \in {"GET", "POST", "OPTIONS"}, hk \in BOOLEAN, k \in {"", "k1", "k2", "bad"}}

InitA ==
  /\ now = 0
  /\ s3 = TRUE
  /\ redis_client = TRUE
  /\ cold = Registry(1, FALSE)
  /\ coldFrame = ColdFrame
  /\ redis = <<>>
  /\ model_cache = <<>>
  /\ encoders_cache = <<>>
  /\ config_cache = <<>>
  /\ tmpModel = NoFile
  /\ tmpEnc = NoFile
  /\ pc = [t \in Threads |-> "idle"]
  /\ cust = [t \in Threads |-> CUSTOMER_ID]
  /\ registry = [t \in Threads |-> NoReg]
  /\ model = [t \in Threads |-> NoneV]
  /\ encoders = [t \in Threads |-> NoneV]
  /\ config = [t \in Threads |-> NoneV]
  /\ frame = [t \in Threads |-> NoFrame]
  /\ err = [t \in Threads |-> ""]
  /\ obs = [t \in Threads |-> NoObs]
  /\ requests = 0
  /\ skew = 0
  /\ upd_s3 = FALSE
  /\ upd_redis_client = FALSE
  /\ upd = UpdIdle
  /\ chk = NoChk
  /\ recent_data = EmptyFrame
  /\ pipe_customer = 0
  /\ pipe_encoders = EncNone
  /\ seq_length = SEQ_LENGTH
  /\ featured_data = EmptyFrame
  /\ X = NoX
  /\ ppc = "off"
  /\ forecast_hours = FORECAST_HOURS
  /\ predictions = <<>>
  /\ forecasts = <<>>
  /\ request = NoRequest
  /\ g_forecast_data = NoData
  /\ environ \in {[mode |-> m, api_key |-> k, allowed_api_keys |-> l] : m \in Modes, k \in ApiKeys, l \in KeyLists}
  /\ areq \in AuthRequests
  /\ aresp = NoResponse
  /\ apc = "before_request"

NextA == BeforeRequest \/ Dispatch

SpecA == InitA /\ [][NextA]_vars

(* ----------------------------- entrypoints ----------------------------- *)
\* lines 565-578, GET /forecast/<customer_id>: read forecast_hours from the
\* query string (int() of text that is no number raises: 500), put the
\* parameters in flask.g and call generate_forecast()
G566 ==
  /\ ppc = "G566"
  /\ IF request.args.given /\ ~request.args.numeric
       THEN /\ ppc' = "err500"
            /\ g_forecast_data' = g_forecast_data
       ELSE /\ g_forecast_data' = [set |-> TRUE, customer_id |-> request.customer_id, forecast_hours |-> IF request.args.given THEN request.args.val ELSE FORECAST_HOURS]
            /\ ppc' = "P455"
  /\ UNCHANGED <<authVars, now, redis, apiVars, updVars, recent_data, pipe_customer, pipe_encoders, seq_length, featured_data, X, forecast_hours, predictions, forecasts, request>>

\* lines 453-462 of generate_forecast: data = request.get_json().  For a
\* request without JSON body get_json gives None (400, line 457) or raises,
\* by the version of Flask installed (500, line 555); an empty object is
\* falsy (400).  customer_id and forecast_hours come from the body alone.
P455 ==
  /\ ppc = "P455"
  /\ IF ~request.body.json
       THEN /\ ppc' \in {"err400", "err500"}
            /\ UNCHANGED <<pipe_customer, forecast_hours>>
       ELSE IF ~request.body.has_c /\ ~request.body.has_h
         THEN /\ ppc' = "err400"
              /\ UNCHANGED <<pipe_customer, forecast_hours>>
         ELSE /\ pipe_customer' = IF request.body.has_c THEN request.body.c ELSE DEFAULT_CUSTOMER
              /\ forecast_hours' = IF request.body.has_h THEN request.body.h ELSE FORECAST_HOURS
              /\ ppc' = "P466"
  /\ UNCHANGED <<authVars, now, redis, apiVars, updVars, recent_data, pipe_encoders, seq_length, featured_data, X, predictions, forecasts, request, g_forecast_data>>

\* the requests the two routes are served with
Bodies == {NoJson} \cup {[json |-> TRUE, has_c |-> hc, c |-> IF hc THEN c ELSE 0, has_h |-> hh, h |-> IF hh THEN h ELSE 0] : hc \in BOOLEAN, c \in {2, 9}, hh \in BOOLEAN, h \in 0..MaxHours}
Args == {NoArg, [given |-> TRUE, numeric |-> FALSE, val |-> 0]} \cup {[given |-> TRUE, numeric |-> TRUE, val |-> h] : h \in 0..MaxHours}
Requests ==
  {[method |-> "POST", customer_id |-> 0, args |-> NoArg, body |-> b] : b \in Bodies}
  \cup {[method |-> "GET", customer_id |-> c, args |-> a, body |-> b] : c \in {2, 9}, a \in Args, b \in Bodies}

InitG ==
  /\ now = 0
  /\ s3 = TRUE
  /\ redis_client = TRUE
  /\ cold = Registry(1, FALSE)
  /\ coldFrame = ColdFrame
  /\ redis = <<>>
  /\ model_cache = <<>>
  /\ encoders_cache = <<>>
  /\ config_cache = <<>>
  /\ tmpModel = NoFile
  /\ tmpEnc = NoFile
  /\ pc = [t \in Threads |-> "idle"]
  /\ cust = [t \in Threads |-> CUSTOMER_ID]
  /\ registry = [t \in Threads |-> NoReg]
  /\ model = [t \in Threads |-> NoneV]
  /\ encoders = [t \in Threads |-> NoneV]
  /\ config = [t \in Threads |-> NoneV]
  /\ frame = [t \in Threads |-> NoFrame]
  /\ err = [t \in Threads |-> ""]
  /\ obs = [t \in Threads |-> NoObs]
  /\ requests = 0
  /\ skew = 0
  /\ upd_s3 = FALSE
  /\ upd_redis_client = FALSE
  /\ upd = UpdIdle
  /\ chk = NoChk
  /\ recent_data = EmptyFrame
  /\ pipe_customer = 0
  /\ pipe_encoders = EncNone
  /\ seq_length = SEQ_LENGTH
  /\ featured_data = EmptyFrame
  /\ X = NoX
  /\ forecast_hours = FORECAST_HOURS
  /\ predictions = <<>>
  /\ forecasts = <<>>
  /\ request \in Requests
  /\ g_forecast_data = NoData
  /\ environ = NoEnviron
  /\ areq = NoAuthRequest
  /\ aresp = NoResponse
  /\ apc = "off"
  /\ ppc = IF request.method = "GET" THEN "G566" ELSE "P455"

NextG == G566 \/ P455

SpecG == InitG /\ [][NextG]_vars

(* the frames and encoders the pipeline is run on *)
\* get_recent_customer_data sorts its rows by timestamp (line 229); the two
\* functions take any frame and sort for themselves (lines 319, 345), so
\* their inputs hold frames in timestamp order and out of it.
Row2(t, v) == [c \in {"timestamp", "kWh"} |-> IF c = "timestamp" THEN Num(t) ELSE v]
\* frames of up to MaxRows rows in any order, with repeated timestamps and
\* missing kWh cells
SmallFrames ==
  UNION {{[cols |-> {"timestamp", "kWh"}, rows |-> r] : r \in [1..n -> {Row2(t, v) : t \in 1..MaxRows, v \in {NaN, Num(1), Num(3)}}]} : n \in 0..MaxRows}
\* frames without the kWh column
BareFrames ==
  UNION {{[cols |-> {"timestamp"}, rows |-> r] : r \in [1..n -> {[c \in {"timestamp"} |-> Num(t)] : t \in 1..MaxRows}]} : n \in 0..MaxRows}
\* hourly frames of about SEQ_LENGTH rows, ascending or descending, kWh
\* equal to the hour, one cell missing at row miss (none for 0)
LongFrame(n, miss, asc) == [cols |-> {"timestamp", "kWh"}, rows |-> [i \in 1..n |-> Row2(IF asc THEN i ELSE n + 1 - i, IF i = miss THEN NaN ELSE Num(IF asc THEN i ELSE n + 1 - i))]]
LongFrames == UNION {{LongFrame(n, miss, asc) : miss \in {0, 1, 2, n}, asc \in BOOLEAN} : n \in (SEQ_LENGTH - 1)..(SEQ_LENGTH + 4)}
\* two-row frames with or without the customer_id, manufacturer and region
\* columns (0: no column; in m, 0 in the second place: a missing cell)
CatFrame(cid, m, reg) ==
  LET cs == {"timestamp"} \cup (IF cid = 0 THEN {} ELSE {"customer_id"}) \cup (IF m[1] = 0 THEN {} ELSE {"manufacturer"}) \cup (IF reg = 0 THEN {} ELSE {"region"})
  IN [cols |-> cs, rows |-> [i \in 1..2 |-> [c \in cs |->
        CASE c = "timestamp" -> Num(i)
          [] c = "customer_id" -> Cat(cid)
          [] c = "manufacturer" -> (IF m[i] = 0 THEN NaN ELSE Cat(m[i]))
          [] OTHER -> Cat(reg)]]]
CatFrames == {CatFrame(cid, m, reg) : cid \in {0, 2, 9}, m \in {<<0, 0>>} \cup ({1, 2} \X {0, 2, 9}), reg \in {0, 2, 9}}
\* fitted encoders that know the categories 1 and 2
FullEncoders == EncDict([n \in {"customer_encoder", "manufacturer_encoder", "region_encoder"} |-> {1, 2}])
CustomerEncoderOnly == EncDict([n \in {"customer_encoder"} |-> {1, 2}])

PipelineInputs ==
  {[df |-> f, customer_id |-> 2, encs |-> FullEncoders, L |-> l, H |-> 2] : f \in SmallFrames \cup BareFrames, l \in 1..MaxRows}
  \cup {[df |-> f, customer_id |-> 2, encs |-> FullEncoders, L |-> SEQ_LENGTH, H |-> h] : f \in LongFrames, h \in 0..MaxHours}
  \cup {[df |-> f, customer_id |-> c, encs |-> e, L |-> 1, H |-> FORECAST_HOURS] : f \in CatFrames, c \in {2, 9}, e \in {FullEncoders, CustomerEncoderOnly, EncStr, EncNone}}

\* the pipeline of one request, with the caches and the updater at rest
InitP ==
  /\ now = 0
  /\ s3 = TRUE
  /\ redis_client = TRUE
  /\ cold = Registry(1, FALSE)
  /\ coldFrame = ColdFrame
  /\ redis = <<>>
  /\ model_cache = <<>>
  /\ encoders_cache = <<>>
  /\ config_cache = <<>>
  /\ tmpModel = NoFile
  /\ tmpEnc = NoFile
  /\ pc = [t \in Threads |-> "idle"]
  /\ cust = [t \in Threads |-> CUSTOMER_ID]
  /\ registry = [t \in Threads |-> NoReg]
  /\ model = [t \in Threads |-> NoneV]
  /\ encoders = [t \in Threads |-> NoneV]
  /\ config = [t \in Threads |-> NoneV]
  /\ frame = [t \in Threads |-> NoFrame]
  /\ err = [t \in Threads |-> ""]
  /\ obs = [t \in Threads |-> NoObs]
  /\ requests = 0
  /\ skew = 0
  /\ upd_s3 = FALSE
  /\ upd_redis_client = FALSE
  /\ upd = UpdIdle
  /\ chk = NoChk
  /\ \E in \in PipelineInputs :
       /\ recent_data = in.df
       /\ pipe_customer = in.customer_id
       /\ pipe_encoders = in.encs
       /\ seq_length = in.L
       /\ forecast_hours = in.H
  /\ featured_data = EmptyFrame
  /\ X = NoX
  /\ ppc = "P483"
  /\ predictions = <<>>
  /\ forecasts = <<>>
  /\ request = NoRequest
  /\ g_forecast_data = NoData
  /\ environ = NoEnviron
  /\ areq = NoAuthRequest
  /\ aresp = NoResponse
  /\ apc = "off"

NextP == P483 \/ P497 \/ P501 \/ P509

SpecP == InitP /\ [][NextP]_vars

(* create_sequences_for_inference on frames that still have missing cells *)
\* generate_forecast hands the function a frame without missing cell (line
\* 332 fills them); the function itself takes any frame, and its callers'
\* frames may hold NaN or a column of strings among the feature columns.
Row3(t, v) == [c \in {"timestamp", "kWh", "kwh_lag_1h"} |-> IF c = "timestamp" THEN Num(t) ELSE IF c = "kWh" THEN NaN ELSE v]
GappyFrames ==
  UNION {{[cols |-> {"timestamp", "kWh", "kwh_lag_1h"}, rows |-> r] : r \in [1..n -> {Row3(t, v) : t \in 1..MaxRows, v \in {NaN, Num(1), Num(3), Cat(1)}}]} : n \in 0..MaxRows}

InitW ==
  /\ now = 0
  /\ s3 = TRUE
  /\ redis_client = TRUE
  /\ cold = Registry(1, FALSE)
  /\ coldFrame = ColdFrame
  /\ redis = <<>>
  /\ model_cache = <<>>
  /\ encoders_cache = <<>>
  /\ config_cache = <<>>
  /\ tmpModel = NoFile
  /\ tmpEnc = NoFile
  /\ pc = [t \in Threads |-> "idle"]
  /\ cust = [t \in Threads |-> CUSTOMER_ID]
  /\ registry = [t \in Threads |-> NoReg]
  /\ model = [t \in Threads |-> NoneV]
  /\ encoders = [t \in Threads |-> NoneV]
  /\ config = [t \in Threads |-> NoneV]
  /\ frame = [t \in Threads |-> NoFrame]
  /\ err = [t \in Threads |-> ""]
  /\ obs = [t \in Threads |-> NoObs]
  /\ requests = 0
  /\ skew = 0
  /\ upd_s3 = FALSE
  /\ upd_redis_client = FALSE
  /\ upd = UpdIdle
  /\ chk = NoChk
  /\ recent_data = EmptyFrame
  /\ pipe_customer = 0
  /\ pipe_encoders = EncNone
  /\ featured_data \in GappyFrames
  /\ seq_length \in 1..MaxRows
  /\ X = NoX
  /\ ppc = "P497"
  /\ forecast_hours = FORECAST_HOURS
  /\ predictions = <<>>
  /\ forecasts = <<>>
  /\ request = NoRequest
  /\ g_forecast_data = NoData
  /\ environ = NoEnviron
  /\ areq = NoAuthRequest
  /\ aresp = NoResponse
  /\ apc = "off"

NextW == P497

SpecW == InitW /\ [][NextW]_vars

TypeOK ==
  /\ now \in 0..(MaxTicks * DATA_CACHE_TTL)
  /\ DOMAIN model_cache \subseteq Customers
  /\ DOMAIN encoders_cache \subseteq Customers
  /\ DOMAIN config_cache \subseteq Customers
  /\ requests \in 0..MaxRequests

(* ------------------------------ claims --------------------------------- *)
\* the thread is inside the cold-store part of load_customer_model
InColdSection(t) == pc[t] \in {"L131", "L132", "L139", "L140", "L146", "L152", "L153", "L154", "L157", "L170m", "L172m", "L170e", "L172e"}
\* ... and has read from the cold store
InColdLoad(t) == obs[t].cold /\ InColdSection(t)
\* load_customer_model has just returned to generate_forecast
Returned(t) == pc[t] = "gf468"
\* the request ended with an exception raised inside load_customer_model
ModelStageError(t) == pc[t] = "err500" /\ obs[t].dredis = "none"
\* the customer has a complete entry in the memory tier
InMemoryTier(c) == c \in DOMAIN model_cache /\ c \in DOMAIN encoders_cache /\ c \in DOMAIN config_cache
\* the keys the memory tier can hold: it has dicts for model bundles only
MemoryTierKeys == {ModelKey(c) : c \in {x \in Customers : InMemoryTier(x)}}

\* C1: concurrent resolves of one customer whose bundle is in no cache tier
\* collapse into one cold-store load: never are two threads inside a cold
\* load of the same customer at the same time.
C1_SingleColdLoad ==
  \A t1 \in Threads : \A t2 \in Threads :
    (InColdLoad(t1) /\ InColdLoad(t2) /\ cust[t1] = cust[t2]) => t1 = t2

\* C2: a resolve answered from the distributed tier inside the TTL window
\* returns the bundle the cold load that wrote the entry returned, and reads
\* nothing from the cold store.
C2_SecondResolveIdentical ==
  \A t \in Threads : \A u \in Threads :
    (Returned(t) /\ obs[t].redis = "hit" /\ Returned(u) /\ "redis" \in obs[u].wrote)
      => (model[t] = model[u] /\ encoders[t] = encoders[u] /\ config[t] = config[u] /\ ~obs[t].cold)

\* C2, for the data key: the frame a resolve gets from the distributed tier
\* is the frame the cold load that wrote it returned.
C2_FrameIdentical ==
  \A t \in Threads : \A u \in Threads :
    (pc[t] = "done" /\ obs[t].dredis = "hit" /\ pc[u] = "done" /\ "redis data" \in obs[u].wrote)
      => (frame[t] = frame[u] /\ ~obs[t].dcold)

\* C3 (as claimed): a load_customer_model call that begins while the memory
\* tier holds the customer's bundle reads neither the distributed tier nor
\* the cold store.
C3_MemoryFirst ==
  \A t \in Threads : obs[t].memAtCall => (obs[t].redis = "none" /\ ~obs[t].cold)

\* C3 (amended): load_customer_model reads the distributed tier first, the
\* memory tier only when the distributed tier gave no entry, and the cold
\* store only when the memory tier did not hold the customer either.
C3_RedisMemoryCold ==
  \A t \in Threads :
    /\ obs[t].redis = "hit" => (obs[t].mem = "none" /\ ~obs[t].cold)
    /\ obs[t].mem # "none" => obs[t].redis \in {"miss", "error", "skip"}
    /\ obs[t].mem = "hit" => ~obs[t].cold
    /\ obs[t].cold => obs[t].mem = "miss"

\* a call that found the bundle in memory after the distributed tier gave
\* nothing, and returned it
C3_Witness ==
  \E t \in Threads : Returned(t) /\ obs[t].mem = "hit" /\ obs[t].redis = "miss" /\ obs[t].memAtCall

\* C4: a cold load that fails at one of its blob reads (registry, model,
\* encoders, config) has written no cache tier; the same holds for the
\* frame's cold load.
BlobReadErrors == {"registry read failed", "model download failed", "model file missing", "encoders download failed", "encoders file missing", "config read failed", "data read failed"}

C4_NoPartialWrite ==
  \A t \in Threads :
    (pc[t] = "err500" /\ err[t] \in BlobReadErrors) =>
      IF ModelStageError(t) THEN obs[t].wrote = {} ELSE obs[t].wrote \cap {"redis data", "redis data failed"} = {}

\* a load that failed at the config read, after registry, model and
\* encoders were read
C4_Witness ==
  \E t \in Threads : pc[t] = "err500" /\ err[t] = "config read failed" /\ model[t].kind = "obj" /\ encoders[t].kind = "obj"

\* C5 (as claimed): after a successful cold load the memory tier and the
\* distributed tier both hold an entry for the key, the distributed entry
\* with the TTL of its kind.
C5_BothTiers ==
  \A t \in Threads :
    /\ (Returned(t) /\ obs[t].cold) =>
         /\ ModelKey(cust[t]) \in MemoryTierKeys
         /\ ModelKey(cust[t]) \in DOMAIN redis
         /\ redis[ModelKey(cust[t])].exp - redis[ModelKey(cust[t])].wr = 3600
    /\ (pc[t] = "done" /\ obs[t].dcold) =>
         /\ DataKey(cust[t]) \in MemoryTierKeys
         /\ DataKey(cust[t]) \in DOMAIN redis
         /\ redis[DataKey(cust[t])].exp - redis[DataKey(cust[t])].wr = 1800

\* C5 (amended): after a successful cold load of a bundle the memory tier
\* holds the customer; the distributed tier holds an entry written with the
\* TTL of its kind (3600 s bundle, 1800 s frame) when the write was made and
\* did not raise; a frame gets no memory-tier entry.
C5_WriteThrough ==
  \A t \in Threads :
    /\ (Returned(t) /\ obs[t].cold) =>
         /\ ModelKey(cust[t]) \in MemoryTierKeys
         /\ "redis" \in obs[t].wrote =>
              /\ ModelKey(cust[t]) \in DOMAIN redis
              /\ redis[ModelKey(cust[t])].exp - redis[ModelKey(cust[t])].wr = 3600
    /\ (pc[t] = "done" /\ obs[t].dcold) =>
         /\ DataKey(cust[t]) \notin MemoryTierKeys
         /\ "redis data" \in obs[t].wrote =>
              /\ DataKey(cust[t]) \in DOMAIN redis
              /\ redis[DataKey(cust[t])].exp - redis[DataKey(cust[t])].wr = 1800

\* a request whose two cold loads succeeded and wrote the distributed tier
C5_Witness ==
  \E t \in Threads : pc[t] = "done" /\ obs[t].cold /\ obs[t].dcold /\ {"redis", "redis data"} \subseteq obs[t].wrote

\* C6: the step on which a resolve is answered from the distributed tier
\* happens less than 3600 s (bundle) or 1800 s (frame) after the entry was
\* written.
C6_NotServedAfterTTL ==
  [][\A t \in Threads :
       /\ (obs[t].redis # "hit" /\ obs'[t].redis = "hit") => now - redis[ModelKey(cust[t])].wr < 3600
       /\ (obs[t].dredis # "hit" /\ obs'[t].dredis = "hit") => now - redis[DataKey(cust[t])].wr < 1800]_vars

\* an entry whose TTL has elapsed is still in the store's key space, and the
\* resolve that asked for it got nothing
C6_Witness ==
  \E t \in Threads :
    /\ pc[t] = "L111" /\ obs[t].redis = "miss"
    /\ ModelKey(cust[t]) \in DOMAIN redis /\ now >= redis[ModelKey(cust[t])].exp

\* C7: once a resolve answered by the distributed tier is complete (lines
\* 467-470 of generate_forecast done), the memory tier holds the customer.
C7_MemoryPopulated ==
  \A t \in Threads :
    (obs[t].redis = "hit" /\ pc[t] \notin {"gf468", "gf469", "gf470"}) => InMemoryTier(cust[t])

C7_Witness ==
  \E t \in Threads : obs[t].redis = "hit" /\ pc[t] = "D187" /\ model_cache[cust[t]] = model[t]

\* C8: a cold load whose distributed-tier write failed does not end in an
\* exception, and the memory tier holds the bundle.
C8_WriteFailureNotSurfaced ==
  \A t \in Threads :
    /\ "redis failed" \in obs[t].wrote => (~ModelStageError(t) /\ InMemoryTier(cust[t]))
    /\ "redis data failed" \in obs[t].wrote => pc[t] # "err500"

\* C9: when no load_customer_model call is inside its cold-store part, the
\* two temporary files do not exist.
C9_TempFilesRemoved ==
  (\A t \in Threads : ~InColdSection(t)) => (tmpModel = NoFile /\ tmpEnc = NoFile)

\* C10: a request fails with "AWS S3 client not available" only when no
\* cached copy could be had: the distributed tier gave no entry (miss, get
\* raised, no client) and, for a bundle, model_cache did not hold the
\* customer.
C10_S3ErrorOnlyWithoutCopy ==
  \A t \in Threads :
    (pc[t] = "err500" /\ err[t] = "AWS S3 client not available") =>
      IF ModelStageError(t)
        THEN obs[t].redis \in {"miss", "error", "skip"} /\ obs[t].mem = "miss"
        ELSE obs[t].dredis \in {"miss", "error", "skip"}

\* with no cold store, a request is served from the cached copies: the
\* bundle from the memory tier, the frame from the distributed tier
C10_Witness ==
  \E t \in Threads : ~s3 /\ pc[t] = "done" /\ obs[t].mem = "hit" /\ obs[t].dredis = "hit"

\* the errors a request ends with when the cold store does not supply a
\* blob, or is not configured
ColdStoreErrors == {"AWS S3 client not available", "registry read failed", "model download failed", "encoders download failed", "config read failed", "data read failed"}

\* C11: a resolve that found the distributed tier unavailable (no client, or
\* a get / decode that raised) fails only when the cold store does not supply
\* the artifact: a request that ends in an error after such a look-up ends in
\* one of the cold store's errors.
C11_FallThroughSucceeds ==
  \A t \in Threads :
    /\ (ModelStageError(t) /\ obs[t].redis \in {"error", "skip"}) => err[t] \in ColdStoreErrors
    /\ (pc[t] = "err500" /\ ~ModelStageError(t) /\ obs[t].dredis \in {"error", "skip"}) => err[t] \in ColdStoreErrors

\* C12: a freshness check that read a record 8 days old reports it stale
\* (needs_update, 'Model older than 7 days'); one that read a record 6 days
\* old reports it fresh (no update needed, 'Model is fresh').
C12_EightDaysStaleSixDaysFresh ==
  /\ (chk.seen = "record" /\ chk.age = 8 * 86400) => (chk.needs_update /\ chk.reason = "Model older than 7 days")
  /\ (chk.seen = "record" /\ chk.age = 6 * 86400) => (~chk.needs_update /\ chk.reason = "Model is fresh")

\* a check met a record written 8 days before, by the updater's clock
C12_Witness == chk.seen = "record" /\ chk.age = 8 * 86400 /\ chk.needs_update

\* C13: the check answers needs_update = False exactly when it read a record
\* at most 7 days old; with no client, a get that raised, no entry, an
\* unreadable entry or an older record it answers True.
C13_FalseOnlyWhenFresh ==
  chk.seen # "none" => (~chk.needs_update <=> (chk.seen = "record" /\ chk.age <= 7 * 86400))

\* a record exactly 7 days old is still fresh
C13_Witness == chk.seen = "record" /\ chk.age = 7 * 86400 /\ ~chk.needs_update

\* C14 (as claimed): the reason is one of three values, those of a missing
\* record, an old record and a fresh record.
C14_ThreeReasons ==
  chk.seen # "none" => chk.reason \in {"No cached model", "Model older than 7 days", "Model is fresh"}

\* C14 (amended): the reason is one of five values, each for its own case:
\* no client, no record, an old record, a fresh record, an exception.
C14_FiveReasons ==
  chk.seen # "none" =>
    /\ chk.reason \in {"Redis not available", "No cached model", "Model older than 7 days", "Model is fresh", "Error"}
    /\ chk.reason = "Redis not available" <=> chk.seen = "no client"
    /\ chk.reason = "No cached model" <=> chk.seen = "absent"
    /\ chk.reason = "Error" <=> chk.seen \in {"get raised", "unreadable"}
    /\ chk.reason = "Model older than 7 days" <=> (chk.seen = "record" /\ chk.age > 7 * 86400)
    /\ chk.reason = "Model is fresh" <=> (chk.seen = "record" /\ chk.age <= 7 * 86400)

\* a check made without a Redis client
C14_Witness == chk.seen = "no client" /\ chk.reason = "Redis not available"

\* the thread is inside load_customer_model
InLoad(t) == pc[t] \in {"L100", "L111"} \/ InColdSection(t) \/ pc[t] = "L123"

\* C15: the freshness check changes no cache tier, and whatever it reports
\* a load_customer_model call can always take its next step and returns
\* what the tier it read holds: the decoded Redis entry on a hit, the objects
\* built from the cold store's current bundle on a cold load.
C15_CheckNeverBlocksOrAlters ==
  /\ [][chk' # chk => UNCHANGED <<redis, memVars, tmpVars, cold, coldFrame, pc, bundleLocals, frame, err>>]_vars
  /\ [](\A t \in {"t1"} :
          /\ InLoad(t) => ENABLED StepSolo(t)
          /\ (Returned(t) /\ obs[t].redis = "hit") =>
               (model[t] = JsonLoads(redis[ModelKey(cust[t])].val).model /\ encoders[t] = JsonLoads(redis[ModelKey(cust[t])].val).encoders)
          /\ (Returned(t) /\ obs[t].cold) =>
               (model[t] = Obj(cold.ver) /\ encoders[t] = Obj(cold.ver) /\ config[t] = IF cold.cfg THEN Json(cold.ver) ELSE NoneV))

\* a cold load returned its bundle while the last freshness check said the
\* model needs an update
C15_Witness == Returned("t1") /\ obs["t1"].cold /\ chk.needs_update /\ chk.seen = "absent"

\* prepare_features_for_inference has returned
Prepared == ppc \in {"P497", "P501", "P509", "done200", "err500"}
\* create_sequences_for_inference has returned or raised
Windowed == ppc \in {"P501", "P509", "done200", "err500"}
\* the columns prepare_features_for_inference adds to every frame, and those
\* it adds to a frame with the kWh column
EncodedCols == {"customer_encoded", "manufacturer_encoded", "region_encoded"}
CalendarCols == {"hour", "day_of_week", "month", "is_weekend"}
KwhCols == {"customer_kwh_mean", "customer_kwh_std", "customer_kwh_min", "customer_kwh_max", "mfg_kwh_mean", "mfg_kwh_std", "mfg_kwh_min", "mfg_kwh_max", "regional_hourly_kwh_mean", "kwh_vs_customer_mean", "kwh_vs_mfg_mean", "kwh_lag_1h", "kwh_lag_24h", "kwh_rolling_mean_6h", "kwh_rolling_std_6h"}

\* C16: the frame prepare_features_for_inference returns has as many rows as
\* its input, has every column of the input and every column the function
\* declares, and has no missing cell.
C16_NoMissingCellSameRows ==
  Prepared =>
    /\ nrows(featured_data) = nrows(recent_data)
    /\ recent_data.cols \cup {"customer_id"} \cup EncodedCols \cup CalendarCols \subseteq featured_data.cols
    /\ "kWh" \in recent_data.cols => KwhCols \subseteq featured_data.cols
    /\ \A i \in 1..nrows(featured_data) : \A c \in featured_data.cols : ~isna(featured_data.rows[i][c])

\* a one-row frame whose kWh cell is missing: mean, std, lags and rolling
\* columns have no value before the fill
C16_Witness ==
  /\ ppc = "P497" /\ "kWh" \in recent_data.cols /\ nrows(recent_data) = 1
  /\ isna(recent_data.rows[1]["kWh"]) /\ featured_data.rows[1]["customer_kwh_std"] = Num(0)

\* C17: after the sort step of the pipeline no two rows of the frame have
\* the same timestamp.
C17_NoSharedTimestamp ==
  Prepared => \A i \in 1..nrows(featured_data) : \A j \in 1..nrows(featured_data) :
                featured_data.rows[i]["timestamp"] = featured_data.rows[j]["timestamp"] => i = j

\* C18 (as claimed): for a frame of fewer than 25 rows with the kWh column,
\* kwh_lag_24h equals the mean of the frame's kWh in every row.
C18_LagEqualsMean ==
  (Prepared /\ "kWh" \in recent_data.cols /\ nrows(recent_data) < 25) =>
    \A i \in 1..nrows(featured_data) : featured_data.rows[i]["kwh_lag_24h"] = MeanOf(Column(recent_data, "kWh"), 1..nrows(recent_data))

\* C18 (amended): for a frame of fewer than 25 rows kwh_lag_24h is, in
\* every row, the mean of the kWh cells that are not missing, and 0 when all
\* of them are missing; for a frame of 25 rows or more it is the kWh of the
\* row 24 places earlier in timestamp order, where that cell has a value.
C18_LagEqualsMeanOrShift ==
  (Prepared /\ "kWh" \in recent_data.cols) =>
    LET m == MeanOf(Column(recent_data, "kWh"), 1..nrows(recent_data))
    IN /\ nrows(recent_data) < 25 =>
            \A i \in 1..nrows(featured_data) : featured_data.rows[i]["kwh_lag_24h"] = IF isna(m) THEN Num(0) ELSE m
       /\ nrows(recent_data) >= 25 =>
            \E sorted \in sort_values(recent_data) : \A i \in 25..nrows(featured_data) :
              ~isna(sorted.rows[i - 24]["kWh"]) => featured_data.rows[i]["kwh_lag_24h"] = sorted.rows[i - 24]["kWh"]

\* a frame of 24 rows: the lag column holds the mean (300/24 or, with one
\* cell missing, another fraction), not a shifted value
C18_Witness ==
  /\ ppc = "P497" /\ "kWh" \in recent_data.cols /\ nrows(recent_data) = 24
  /\ featured_data.rows[24]["kwh_lag_24h"] = MeanOf(Column(recent_data, "kWh"), 1..24)
  /\ featured_data.rows[24]["kwh_lag_24h"] # Num(0)

\* the encoder of that name cannot encode the column: encoders is no dict,
\* has no such encoder, or a category of the column was not seen in training
CannotEncode(name, vals) == ~Transform(pipe_encoders, name, vals).ok
\* the encoded column is 0 in every row
AllZero(col) == \A i \in 1..nrows(featured_data) : featured_data.rows[i][col] = Num(0)

\* C19 (as claimed): for customer, manufacturer and region alike, the
\* encoded column is 0 in every row when the raw column is absent, the
\* encoder is missing or the encoder fails.
C19_ZeroForAllThree ==
  Prepared =>
    /\ ("customer_id" \notin recent_data.cols \/ CannotEncode("customer_encoder", Column(WithCustomer(recent_data, pipe_customer), "customer_id"))) => AllZero("customer_encoded")
    /\ ("manufacturer" \notin recent_data.cols \/ CannotEncode("manufacturer_encoder", Column(recent_data, "manufacturer"))) => AllZero("manufacturer_encoded")
    /\ ("region" \notin recent_data.cols \/ CannotEncode("region_encoder", Column(recent_data, "region"))) => AllZero("region_encoded")

\* C19 (amended): manufacturer_encoded and region_encoded are 0 in every row
\* when the raw column is absent, the encoder is missing or the encoder
\* fails.  A frame without customer_id first gets the column from the
\* customer_id argument; customer_encoded is 0 in every row when the encoder
\* is missing or fails, and the code of the argument when the column was
\* absent and the encoder knows the customer.
C19_ZeroOnFallback ==
  Prepared =>
    /\ CannotEncode("customer_encoder", Column(WithCustomer(recent_data, pipe_customer), "customer_id")) => AllZero("customer_encoded")
    /\ ("customer_id" \notin recent_data.cols /\ ~CannotEncode("customer_encoder", <<Cat(pipe_customer)>>)) =>
         \A i \in 1..nrows(featured_data) : featured_data.rows[i]["customer_encoded"] = Transform(pipe_encoders, "customer_encoder", <<Cat(pipe_customer)>>).vals[1]
    /\ ("manufacturer" \notin recent_data.cols \/ CannotEncode("manufacturer_encoder", Column(recent_data, "manufacturer"))) => AllZero("manufacturer_encoded")
    /\ ("region" \notin recent_data.cols \/ CannotEncode("region_encoder", Column(recent_data, "region"))) => AllZero("region_encoded")

\* the manufacturer column has a category the encoder knows (code 1) in its
\* first row and one it never saw in its second: both rows are encoded 0
C19_Witness ==
  /\ ppc = "P497" /\ pipe_encoders = FullEncoders /\ "manufacturer" \in recent_data.cols
  /\ recent_data.rows[1]["manufacturer"] = Cat(2) /\ recent_data.rows[2]["manufacturer"] = Cat(9)
  /\ AllZero("manufacturer_encoded")

\* C20: on a frame of n rows without missing cell and a length L the call
\* raises the insufficient-data error when n < L, and otherwise returns
\* n - L + 1 windows (one when n = L), the k-th holding rows k .. k+L-1 of
\* the frame in timestamp order.
C20_EveryStrideOneWindow ==
  Windowed =>
    /\ nrows(featured_data) < seq_length => X.err = "Insufficient data for sequence creation"
    /\ nrows(featured_data) >= seq_length =>
         /\ X.err = ""
         /\ Len(X.seqs) = nrows(featured_data) - seq_length + 1
         /\ \E sorted \in sort_values(featured_data) :
              \A k \in 1..Len(X.seqs) : \A r \in 1..seq_length : \A c \in FeatureCols(featured_data) :
                X.seqs[k][r][c] = sorted.rows[k + r - 1][c]

\* 26 rows and length 24 give three windows; the last ends at the last row
C20_Witness ==
  /\ ppc = "P501" /\ seq_length = SEQ_LENGTH /\ nrows(featured_data) = SEQ_LENGTH + 2 /\ Len(X.seqs) = 3
  /\ X.seqs[3][SEQ_LENGTH]["hour"] = Num((SEQ_LENGTH + 2) % 24)

\* a cell of a window is missing
HasMissing(w) == \E r \in DOMAIN w : \E c \in DOMAIN w[r] : isna(w[r][c])
\* the candidate windows of the frame: one ending at each row from L on
Candidates(df, L) == {Window(df, FeatureCols(df), i, L) : i \in L..nrows(df)}

\* C21: no window create_sequences_for_inference returns has a missing cell
\* in a feature column; windows with a missing cell are dropped without
\* error as long as another window is kept; when every candidate window has
\* a missing cell the call raises "No valid sequences created" and returns
\* nothing.
C21_NoMissingInWindows ==
  Windowed =>
    /\ \A k \in 1..Len(X.seqs) : ~HasMissing(X.seqs[k])
    /\ X.err \in {"", "Insufficient data for sequence creation", "No valid sequences created"}
    /\ X.err = "" <=> Len(X.seqs) >= 1
    /\ \E sorted \in sort_values(featured_data) :
         LET clean == {w \in Candidates(sorted, seq_length) : ~HasMissing(w)}
         IN /\ Len(X.seqs) <= Cardinality({i \in seq_length..nrows(sorted) : ~HasMissing(Window(sorted, FeatureCols(sorted), i, seq_length))})
            /\ \A k \in 1..Len(X.seqs) : X.seqs[k] \in clean
            /\ (nrows(sorted) >= seq_length /\ clean = {}) => X.err = "No valid sequences created"

\* three rows and length 1: the middle window has a missing cell, the call
\* returns the other two
C21_Witness ==
  /\ ppc = "P501" /\ seq_length = 1 /\ nrows(featured_data) = 3 /\ Len(X.seqs) = 2
  /\ \E i \in 1..3 : isna(featured_data.rows[i]["kwh_lag_1h"])
  /\ \A i \in 1..3 : featured_data.rows[i]["timestamp"] = Num(i)
  /\ isna(featured_data.rows[2]["kwh_lag_1h"])

\* every candidate window has a missing cell and the call raised
C21_WitnessAllDropped ==
  /\ ppc = "err500" /\ X.err = "No valid sequences created" /\ nrows(featured_data) = 2 /\ seq_length = 2
  /\ isna(featured_data.rows[1]["kwh_lag_1h"]) /\ featured_data.rows[2]["kwh_lag_1h"] = Num(1)
\* generate_forecast has built its 200 response
Assembled == ppc = "done200"
\* datetime of the frame's last row, in hours
LastTimestamp == MaxOf(Column(featured_data, "timestamp"), 1..nrows(featured_data)).a

\* C22: the forecast point with hour_ahead = i carries the prediction made
\* from the i-th window counted from the most recent one: hour_ahead = 1
\* that of the last window of X, hour_ahead = 2 that of the window before.
C22_LatestWindowFirst ==
  Assembled =>
    \A p \in 1..Len(forecasts) : \A c \in DOMAIN forecasts[p].values :
      forecasts[p].values[c].window = X.seqs[Len(X.seqs) + 1 - forecasts[p].hour_ahead]

\* C23: the response has min(forecast_hours, len(predictions)) points; the
\* i-th has hour_ahead = i and the timestamp of the frame's last row plus i
\* hours.
C23_PointsCountAndTimes ==
  Assembled =>
    /\ Len(forecasts) = Min(forecast_hours, Len(predictions))
    /\ \A p \in 1..Len(forecasts) :
         /\ forecasts[p].hour_ahead = p
         /\ forecasts[p].timestamp = isoformat(LastTimestamp + p)

\* five predictions and forecast_hours = 3: three points, one, two and three
\* hours after the last row (hour 28 of the frame)
C23_Witness ==
  /\ Assembled /\ Len(predictions) = 5 /\ forecast_hours = 3 /\ Len(forecasts) = 3
  /\ LastTimestamp = SEQ_LENGTH + 4
  /\ forecasts[1].timestamp = isoformat(SEQ_LENGTH + 5) /\ forecasts[3].timestamp = isoformat(SEQ_LENGTH + 7)
\* the request has resolved its bundle and goes on to use it
UsesBundle(t) == pc[t] \in {"D187", "D204", "D243", "done"}
\* the triple is what one load of bundle version v returns: from the cold
\* store the objects and the config document (None when the registry names
\* none), from the Redis tier their json.dumps(default=str) form
TripleOfLoad(t, v) ==
  LET b == [model |-> Obj(v), encoders |-> Obj(v), config |-> IF cold.cfg THEN Json(v) ELSE NoneV]
  IN [model |-> model[t], encoders |-> encoders[t], config |-> config[t]] \in {b, JsonLoads(JsonDumps(b))}

\* C24: the (model, encoders, config) triple a request uses is the triple
\* of a single load, under any interleaving of requests and cold loads.
C24_TripleFromOneLoad ==
  \A t \in Threads : UsesBundle(t) => \E v \in 1..MaxVersion : TripleOfLoad(t, v)
\* the exceptions a cold load meets only when its temp file was removed by
\* another load
TempFileErrors == {"model file missing", "encoders file missing", "FileNotFoundError"}

\* C25: concurrent cold loads of one customer's bundle cost redundant work
\* only: none of them fails on a temp file the other removed, and each
\* returns the bundle its registry document names.
C25_RedundantWorkOnly ==
  \A t \in Threads :
    /\ obs[t].cold => err[t] \notin TempFileErrors
    /\ (Returned(t) /\ obs[t].cold) =>
         (model[t] = Obj(registry[t].ver) /\ encoders[t] = Obj(registry[t].ver) /\ config[t] = IF registry[t].cfg THEN Json(registry[t].ver) ELSE NoneV)
\* update_customer_model has returned
Updated == upd.pc = "idle" /\ upd.ret # "none"

\* C26: update_customer_model returns True exactly when it got the registry
\* document and neither the model nor the encoders download failed, whatever
\* became of the config download and of the Redis write; and it writes the
\* freshness record only in a call that returns True.
C26_TrueIffRegistryAndDownloads ==
  /\ Updated => (upd.ret = "True" <=> (upd.reg /\ ~upd.modelFailed /\ ~upd.encFailed))
  /\ upd.wrote = "written" => (upd.success /\ upd.reg /\ (Updated => upd.ret = "True"))

\* the call returned True although the config download and the Redis write
\* both failed
C26_Witness == Updated /\ upd.ret = "True" /\ upd.cfgFailed /\ upd.wrote = "failed"
\* generate_forecast has read its parameters, or the request has ended
Parsed == ppc \in {"P466", "err400", "err500"}

\* C27: GET /forecast/<customer_id>?forecast_hours=h runs the forecast with
\* that customer_id and h (24 without the parameter), as POST /forecast does
\* with the same two values in its body.
C27_GetSameAsPost ==
  (Parsed /\ request.method = "GET" /\ (request.args.given => request.args.numeric)) =>
    /\ ppc = "P466"
    /\ pipe_customer = request.customer_id
    /\ forecast_hours = IF request.args.given THEN request.args.val ELSE FORECAST_HOURS
\* the request was let through to its view, or answered by the hook
Reached == apc = "handler"
Rejected == apc = "rejected"

LastRecord == redis[FreshKey(CUSTOMER_ID)]
Written == FreshKey(CUSTOMER_ID) \in DOMAIN redis

\* C30: with update_customer_model as the only writer of the freshness key
\* and a clock that only moves forward, check_model_freshness never answers
\* 'Model older than 7 days': a record it reads is less than an hour old,
\* and one written an hour ago or more is absent ('No cached model').
C30_NeverOlderThanSevenDays ==
  /\ chk.reason # "Model older than 7 days"
  /\ chk.seen = "record" => chk.age < 3600
  /\ \A r \in check_model_freshness(CUSTOMER_ID) :
       /\ r.reason # "Model older than 7 days"
       /\ (Written /\ now - LastRecord.wr >= 3600 /\ r.seen # "get raised") => r.reason = "No cached model"

\* the record was written more than seven days ago and the check answers
\* 'No cached model'
C30_Witness ==
  /\ Written /\ now - LastRecord.wr > SEVEN_DAYS
  /\ chk.reason = "No cached model" /\ chk.seen = "absent"
  /\ upd.wrote = "written"
\* C31: whenever a customer is in model_cache it is in encoders_cache as
\* well, and no request fails on the missing encoders entry.
C31_ModelImpliesEncoders ==
  /\ DOMAIN model_cache \subseteq DOMAIN encoders_cache
  /\ \A t \in Threads : err[t] # "KeyError"
\* C32: the memory tier only grows.  A customer once in model_cache stays
\* there with the bundle first stored: no step of the service, of the
\* updater or of the clock removes the entry or puts another model in its
\* place, so a request served from the memory tier gets the first bundle.
C32_MemoryTierOnlyGrows ==
  [][\A c \in DOMAIN model_cache : c \in DOMAIN model_cache' /\ model_cache'[c] = model_cache[c]]_vars
\* What a get of key k returns from Redis' store: the entry, or nothing.
EntryAt(k) == IF k \in DOMAIN redis THEN {redis[k]} ELSE {}

\* C33: for a customer id without ':' the key of the bundle entry
\* ('edge:model:<id>:') differs from the key of the freshness record
\* ('edge:model:<id>'); no step of update_customer_model changes the entry
\* load_customer_model reads, and no step of a request changes the entry
\* check_model_freshness reads.
C33_BundleKeyApartFromFreshKey ==
  /\ [](\A c \in Customers : ModelKey(c) # FreshKey(c))
  /\ [][upd' # upd => \A c \in Customers : EntryAt(ModelKey(c))' = EntryAt(ModelKey(c))]_vars
  /\ [][pc' # pc => \A c \in Customers : EntryAt(FreshKey(c))' = EntryAt(FreshKey(c))]_vars

\* both writers have written: the bundle entry and the freshness record are
\* live in Redis side by side
C33_Witness ==
  /\ upd.wrote = "written"
  /\ RedisHas(ModelKey(CUSTOMER_ID))
  /\ RedisHas(FreshKey(CUSTOMER_ID))
  /\ redis[ModelKey(CUSTOMER_ID)].val = ModelEntry(Obj(cold.ver), Obj(cold.ver), IF cold.cfg THEN Json(cold.ver) ELSE NoneV)
  /\ redis[FreshKey(CUSTOMER_ID)].val.kind = "json"
====
